---------------------------- MODULE Spec2Model ----------------------------
(***************************************************************************)
(* The embedding daemon of semantic-search-cli, its wire protocol and its  *)
(* clients.                                                                *)
(*                                                                         *)
(*   src/src/server/mod.rs        DaemonServer (run, handle_connection,    *)
(*                                handle_request, cleanup)                 *)
(*   src/src/server/protocol.rs   Request / Response, framing              *)
(*   src/src/server/embedding.rs  EmbeddingModel::embed (session lock)     *)
(*   src/src/client/mod.rs        DaemonClient, stop_daemon                *)
(*   src/src/cli/commands/serve.rs  handle_start, serve --daemon           *)
(*                                                                         *)
(* Time is counted in ticks of one check interval of the daemon (10 s):    *)
(* the daemon's timestamp last_request is kept as the time elapsed since   *)
(* it was written (idle), saturating just above idle_timeout, which is all *)
(* the comparison last.elapsed() > idle_timeout can see.                   *)
(***************************************************************************)
EXTENDS Naturals, Sequences, FiniteSets

\* ------------------------------------------------------------- bounds
MaxDaemons == 2
MaxConns == 2
MaxClients == 1
MaxFrames == 2
MaxServed == 2
\* daemon.idle_timeout_secs of the configuration, in ticks
idle_timeout == 1

\* --------------------------------------------------- program constants
\* check_interval = 10 s = one tick (server/mod.rs:98)
check_interval == 1
\* max_wait = 60 s = six ticks (client/mod.rs:60)
max_wait == 6
\* the cap on a declared frame length, 10 * 1024 * 1024 (server/mod.rs:139)
MsgCap == 10485760
\* the declared length of an ordinary small frame
ShortLen == 16

Daemons == 1..MaxDaemons
\* The pid of a daemon of an earlier run that was killed: no process now.
Stale == MaxDaemons + 1
Conns == 1..MaxConns
Clients == 1..MaxClients

VARIABLES
  sockFile,     \* the socket path: 0 = no file, d = the socket daemon d bound
  pidFile,      \* the PID file: 0 = no file, d = holds the pid of daemon d
  dpc,          \* each daemon process's position
  exitBy,       \* why a stopped daemon stopped
  bound,        \* whether the daemon has bound its socket
  idle,         \* ticks elapsed since last_request was written
  sleepLeft,    \* ticks left of the sleep(check_interval) of this select!
  shutdown,     \* the shutdown flag
  served,       \* requests_served
  handled,      \* history: calls of handle_request made so far
  cur,          \* the connection handle_connection is serving, 0 = none
  req,          \* the deserialized request in hand
  resp,         \* the response in hand
  lockHeld,     \* the session mutex
  running,      \* session.run calls executing now
  conn,         \* the connections (streams) to the daemons
  backlog,      \* each listener's queue of connections not yet accepted
  bigBody,      \* history: who read the body of a frame declared above the cap
  cpc,          \* each client process's position
  cauto,        \* the client's daemon.auto_start
  cconn,        \* the client's open connection, 0 = none
  waited,       \* ticks elapsed since wait_for_ready started
  cres,         \* the result the client's call returned
  cpid,         \* the pid stop_daemon read
  cspawned,     \* history: daemons this call spawned
  cpong,        \* history: this call's ping was answered with Pong
  content,      \* the content of the document given to the chunker
  config,       \* the IndexingConfig given to TextChunker::new
  chunks,       \* what chunk() returned
  chunked,      \* whether chunk() has returned
  qdrant,       \* the Qdrant collection with every acknowledged update:
                \* point id -> point, or NoCollection
  qseen,        \* the Qdrant collection as reads see it: with the updates
                \* applied so far
  pg,           \* the pgvector table: id -> row, or NoCollection
  cmd,          \* the store operation run last, its arguments and result
  embedding_dim, \* the embedding dimension the backends were built with
  qdim,         \* the vector size of the Qdrant collection, 0 without one
  pdim,         \* the size of the embedding column of the table, 0 without
  retry_config, \* the RetryConfig given to with_retry
  results,      \* what the operation returns, invocation by invocation
  rpc,          \* where with_retry is: idle, call, sleep, done
  attempts,     \* with_retry's attempts
  delay,        \* with_retry's delay, in units of 25 ms
  invoked,      \* history: how often the operation was invoked
  retried,      \* what with_retry returned
  wpc,          \* where chunk() is: idle, loop (in split_with_overlap), done
  wstart,       \* split_with_overlap's start
  wpushed,      \* split_with_overlap's chunks: (start, adjusted_end) each
  ipc,          \* where `index add` is: idle, files (in its loop), done,
                \* failed
  files,        \* the files collect_files found: location and content
  batch_size,   \* config.embedding.batch_size
  ipos,         \* the file the loop of handle_add is at
  pending_chunks, \* handle_add's pending_chunks
  pending_texts,  \* handle_add's pending_texts
  indexed,      \* the vector store: the stored chunks
  handed,       \* history: the batches given to upsert_points by this run
  produced,     \* history: the chunks chunk() returned in this run
  batched,      \* what the process_batch called last returned, or none
  runs          \* history: the runs of `index add` started

dvars == <<dpc, exitBy, bound, idle, sleepLeft, shutdown, served, handled,
           cur, req, resp, lockHeld, running>>
fvars == <<sockFile, pidFile>>
nvars == <<conn, backlog, bigBody>>
cvars == <<cpc, cauto, cconn, waited, cres, cpid, cspawned, cpong>>
\* The variables of the chunker (kvars) and of the vector store (svars),
\* which the daemon and its clients never touch.
kvars == <<content, config, chunks, chunked>>
svars == <<qdrant, qseen, pg, cmd>>
\* The dimensions of the backends and of what they provisioned (gvars).
gvars == <<embedding_dim, qdim, pdim>>
\* The variables of with_retry (rvars).
rvars == <<retry_config, results, rpc, attempts, delay, invoked, retried>>
\* The variables of the loop of split_with_overlap (wvars).
wvars == <<wpc, wstart, wpushed>>
\* The variables of the indexing pipeline (ivars).
ivars == <<ipc, files, batch_size, ipos, pending_chunks, pending_texts,
           indexed, handed, produced, batched, runs>>
pvars == <<kvars, svars, gvars, rvars, wvars, ivars>>
vars == <<fvars, dvars, nvars, cvars, pvars>>

\* ------------------------------------------------------------ protocol
\* Request bodies as they arrive: the four Request variants, a body that
\* does not deserialize, and a body cut short by the peer.
Bodies == {"ping", "shutdown", "status", "embed", "invalid", "partial"}

\* The frames a peer may write: [len |-> declared length, body |-> ...].
Frames == [len : {ShortLen}, body : Bodies]
            \cup [len : {MsgCap, MsgCap + 1}, body : {"embed"}]

Frame(len, body) == [len |-> len, body |-> body]

\* Response::error(..) and the other Response variants, framed by
\* encode_message (the prefix is the length of the serialized body).
Response(body, len) == [len |-> len, body |-> body]

\* No request / no response in hand (the locals of one loop iteration).
NoRequest == "none"
NoResponse == Response("none", 0)

\* decode_length: the four prefix bytes as a big-endian u32 (a frame's len
\* is that prefix, so it is below 2^32 by construction).
decode_length(f) == f.len

\* serde_json::from_slice::<Request>: the request, or "invalid".
Deserialize(f) == IF f.body \in {"ping", "shutdown", "status", "embed"}
                  THEN f.body ELSE "invalid"

\* A stream: st (free, backlog, accepted, closed by the server), the daemon
\* it leads to, its owner (0: a peer that is not a DaemonClient), whether
\* the peer's end is open, the frames written and not yet read (inq), the
\* number of frames written (nsent), the requests read in order (rd, with
\* "invalid" for a body that did not deserialize) and the responses written
\* (out).
FreeConn == [st |-> "free", to |-> 0, owner |-> 0, peerOpen |-> FALSE,
             inq |-> <<>>, nsent |-> 0, rd |-> <<>>, out |-> <<>>]


Min(a, b) == IF a < b THEN a ELSE b

\* A counter that adds two.
CountTwice(n) == Min(n + 2, MaxServed)

\* fetch_add(1) on the u64 counter; the model stops counting at MaxServed.
Count(n) == Min(n + 1, MaxServed)

\* The server's end of a stream is dropped: a connection both ends have left
\* is forgotten.
SrvClosed(c) == IF c.peerOpen THEN [c EXCEPT !.st = "closed"] ELSE FreeConn

\* The peer's end of a stream is dropped.
PeerClosed(c) == IF c.st = "closed" THEN FreeConn
                 ELSE [c EXCEPT !.peerOpen = FALSE]

\* The listener and every stream of daemon d are closed (the process ends).
StopConns(d) == [k \in Conns |->
                   IF conn[k].to = d /\ conn[k].st \in {"backlog", "accepted"}
                   THEN SrvClosed(conn[k]) ELSE conn[k]]

\* Positions between UnixListener::bind and the end of the process.
ListenPcs == {"write_pid", "select", "read", "handle", "embed", "lock",
              "infer", "count", "write", "cleanup", "cleanup_pid"}
\* Positions inside the accept loop of run().
LoopPcs == {"select", "read", "handle", "embed", "lock", "infer", "count",
            "write"}
\* Positions inside handle_connection.
ServePcs == LoopPcs \ {"select"}
\* Positions before the first select! of run().
StartPcs == {"new", "run", "rm_stale", "bind", "write_pid"}

Alive(d) == d \in Daemons /\ dpc[d] \notin {"none", "stopped"}
Listening(d) == d \in Daemons /\ dpc[d] \in ListenPcs

\* ------------------------------------------------------ daemon process
\* `serve --daemon` / `serve --foreground`: a daemon process starts.
RunDaemonMode(d) ==
  /\ dpc[d] = "none"
  /\ dpc' = [dpc EXCEPT ![d] = "new"]
  /\ UNCHANGED <<exitBy, bound, idle, sleepLeft, shutdown, served, handled,
                 cur, req, resp, lockHeld, running>>

\* The process ends: its listener and streams close with it.
Exit(d, why) ==
  /\ dpc' = [dpc EXCEPT ![d] = "stopped"]
  /\ exitBy' = [exitBy EXCEPT ![d] = why]
  /\ conn' = StopConns(d)
  /\ backlog' = [backlog EXCEPT ![d] = <<>>]
  /\ cur' = [cur EXCEPT ![d] = 0]
  /\ lockHeld' = [lockHeld EXCEPT ![d] = FALSE]
  /\ running' = [running EXCEPT ![d] = 0]

\* DaemonServer::new: load the model, then last_request = now,
\* requests_served = 0, shutdown = false; a load error ends the process.
New(d) ==
  /\ UNCHANGED pvars
  /\ dpc[d] = "new"
  /\ \/ /\ dpc' = [dpc EXCEPT ![d] = "run"]
        /\ idle' = [idle EXCEPT ![d] = 0]
        /\ UNCHANGED <<exitBy, conn, backlog, cur, lockHeld, running>>
     \/ /\ Exit(d, "load_error")
        /\ UNCHANGED idle
  /\ UNCHANGED <<fvars, bound, sleepLeft, shutdown, served, handled, req, resp, bigBody, cvars>>

\* run(): if self.socket_path.exists()
CheckStale(d) ==
  /\ UNCHANGED pvars
  /\ dpc[d] = "run"
  /\ dpc' = [dpc EXCEPT ![d] = IF sockFile # 0 THEN "rm_stale" ELSE "bind"]
  /\ UNCHANGED <<fvars, exitBy, bound, idle, sleepLeft, shutdown, served,
                 handled, cur, req, resp, lockHeld, running, nvars,
                 cvars>>

\* run(): std::fs::remove_file(&self.socket_path)?
RemoveStale(d) ==
  /\ UNCHANGED pvars
  /\ dpc[d] = "rm_stale"
  /\ IF sockFile # 0
     THEN /\ sockFile' = 0
          /\ dpc' = [dpc EXCEPT ![d] = "bind"]
          /\ UNCHANGED <<exitBy, conn, backlog, cur, lockHeld, running>>
     ELSE /\ Exit(d, "io_error")
          /\ UNCHANGED sockFile
  /\ UNCHANGED <<pidFile, bound, idle, sleepLeft, shutdown, served, handled,
                 req, resp, bigBody, cvars>>

\* run(): UnixListener::bind(&self.socket_path)? fails when the path exists.
Bind(d) ==
  /\ UNCHANGED pvars
  /\ dpc[d] = "bind"
  /\ IF sockFile = 0
     THEN /\ sockFile' = d
          /\ bound' = [bound EXCEPT ![d] = TRUE]
          /\ dpc' = [dpc EXCEPT ![d] = "write_pid"]
          /\ UNCHANGED <<exitBy, conn, backlog, cur, lockHeld, running>>
     ELSE /\ Exit(d, "io_error")
          /\ UNCHANGED <<sockFile, bound>>
  /\ UNCHANGED <<pidFile, idle, sleepLeft, shutdown, served, handled,
                 req, resp, bigBody, cvars>>

\* write_pid_file; then the first iteration of the loop starts its sleep.
WritePid(d) ==
  /\ UNCHANGED pvars
  /\ dpc[d] = "write_pid"
  /\ pidFile' = d
  /\ dpc' = [dpc EXCEPT ![d] = "select"]
  /\ sleepLeft' = [sleepLeft EXCEPT ![d] = check_interval]
  /\ UNCHANGED <<sockFile, exitBy, bound, idle, shutdown, served, handled,
                 cur, req, resp, lockHeld, running, nvars, cvars>>

\* select!: listener.accept() => Ok((stream, _)): the oldest pending
\* connection; last_request = now; handle_connection(stream).await
Accept(d) ==
  /\ UNCHANGED pvars
  /\ dpc[d] = "select"
  /\ backlog[d] # <<>>
  /\ LET k == Head(backlog[d]) IN
       /\ conn' = [conn EXCEPT ![k].st = "accepted"]
       /\ cur' = [cur EXCEPT ![d] = k]
  /\ backlog' = [backlog EXCEPT ![d] = Tail(@)]
  /\ idle' = [idle EXCEPT ![d] = 0]
  /\ dpc' = [dpc EXCEPT ![d] = "read"]
  /\ UNCHANGED <<fvars, exitBy, bound, sleepLeft, shutdown, served, handled,
                 req, resp, lockHeld, running, bigBody,
                 cvars>>

\* select!: listener.accept() => Err(e): logged; the loop starts a new sleep.
AcceptError(d) ==
  /\ UNCHANGED pvars
  /\ dpc[d] = "select"
  /\ sleepLeft[d] # check_interval
  /\ sleepLeft' = [sleepLeft EXCEPT ![d] = check_interval]
  /\ UNCHANGED <<fvars, dpc, exitBy, bound, idle, shutdown, served, handled,
                 cur, req, resp, lockHeld, running, nvars, cvars>>

\* An idle test that fires at idle_timeout instead of after it.
IdleExpiredEarly(d) == idle[d] >= idle_timeout

\* The idle test of the sleep branch: last.elapsed() > idle_timeout.
IdleExpired(d) == idle[d] > idle_timeout

\* The branch of select! that reads the shutdown flag.
SeesShutdown(d) == shutdown[d]

\* select!: sleep(check_interval) completed.
TimerFire(d) ==
  /\ UNCHANGED pvars
  /\ dpc[d] = "select"
  /\ sleepLeft[d] = 0
  /\ IF SeesShutdown(d)
     THEN /\ dpc' = [dpc EXCEPT ![d] = "cleanup"]
          /\ exitBy' = [exitBy EXCEPT ![d] = "shutdown"]
          /\ UNCHANGED sleepLeft
     ELSE IF IdleExpired(d)
     THEN /\ dpc' = [dpc EXCEPT ![d] = "cleanup"]
          /\ exitBy' = [exitBy EXCEPT ![d] = "idle"]
          /\ UNCHANGED sleepLeft
     ELSE /\ sleepLeft' = [sleepLeft EXCEPT ![d] = check_interval]
          /\ UNCHANGED <<dpc, exitBy>>
  /\ UNCHANGED <<fvars, bound, idle, shutdown, served, handled, cur,
                 req, resp, lockHeld, running, nvars, cvars>>

\* SIGINT. In select! the ctrl_c() branch breaks out of the loop; before the
\* first select! no handler is installed and the signal ends the process;
\* inside handle_connection no ctrl_c() future is listening and the signal
\* is lost (no step).
SigInt(d) ==
  /\ UNCHANGED pvars
  /\ \/ /\ dpc[d] = "select"
        /\ dpc' = [dpc EXCEPT ![d] = "cleanup"]
        /\ exitBy' = [exitBy EXCEPT ![d] = "sigint"]
        /\ UNCHANGED <<conn, backlog, cur, lockHeld, running>>
     \/ /\ dpc[d] \in StartPcs
        /\ Exit(d, "sigint")
  /\ UNCHANGED <<fvars, bound, idle, sleepLeft, shutdown, served, handled,
                 req, resp, bigBody, cvars>>

\* handle_connection returns: the stream is dropped and run() loops.
EndConnection(d) ==
  /\ conn' = [conn EXCEPT ![cur[d]] = SrvClosed(@)]
  /\ cur' = [cur EXCEPT ![d] = 0]
  /\ dpc' = [dpc EXCEPT ![d] = "select"]
  /\ sleepLeft' = [sleepLeft EXCEPT ![d] = check_interval]

\* The length check of handle_connection: len > 10 * 1024 * 1024.
TooLong(len) == len > MsgCap

\* A loop that drops a request it cannot deserialize without a reply.
AnswerInvalidSilently(c) ==
  [c EXCEPT !.inq = Tail(@), !.rd = Append(@, "invalid")]

\* A loop that replies to a request it cannot deserialize and then drops the
\* stream (break instead of continue).
AnswerInvalidThenClose(c) ==
  [c EXCEPT !.inq = Tail(@), !.rd = Append(@, "invalid"),
            !.out = IF c.peerOpen
                    THEN Append(@, Response("error", ShortLen)) ELSE @,
            !.st = "closed"]

\* What the loop does with a request that does not deserialize: the Error
\* response is written if the stream still takes it, and the loop continues.
AnswerInvalid(c) ==
  [c EXCEPT !.inq = Tail(@), !.rd = Append(@, "invalid"),
            !.out = IF c.peerOpen
                    THEN Append(@, Response("error", ShortLen)) ELSE @]

\* handle_connection: read_exact(len_buf), decode_length, the cap,
\* read_exact(msg_buf), serde_json::from_slice.
ReadFrame(d) ==
  /\ UNCHANGED pvars
  /\ dpc[d] = "read"
  /\ LET k == cur[d]
         c == conn[k]
         f == Head(c.inq)
     IN IF c.inq = <<>>
        THEN \* nothing to read: EOF once the peer has closed, else wait
             /\ ~c.peerOpen
             /\ EndConnection(d)
             /\ UNCHANGED req
        ELSE IF TooLong(decode_length(f))
        THEN /\ EndConnection(d)
             /\ UNCHANGED req
        ELSE IF f.body = "partial"
        THEN \* the body never completes: an error once the peer has closed
             /\ ~c.peerOpen
             /\ EndConnection(d)
             /\ UNCHANGED req
        ELSE IF Deserialize(f) = "invalid"
        THEN /\ conn' = [conn EXCEPT ![k] = AnswerInvalid(c)]
             /\ UNCHANGED <<cur, dpc, sleepLeft, req>>
        ELSE /\ conn' = [conn EXCEPT ![k].inq = Tail(@),
                                     ![k].rd = Append(@, Deserialize(f))]
             /\ req' = [req EXCEPT ![d] = Deserialize(f)]
             /\ dpc' = [dpc EXCEPT ![d] = "handle"]
             /\ UNCHANGED <<cur, sleepLeft>>
  /\ LET c == conn[cur[d]] IN
       bigBody' = IF /\ c.inq # <<>>
                     /\ ~TooLong(decode_length(Head(c.inq)))
                     /\ decode_length(Head(c.inq)) > MsgCap
                  THEN bigBody \cup {"daemon"} ELSE bigBody
  /\ UNCHANGED <<fvars, exitBy, bound, idle, shutdown, served, handled, resp,
                 lockHeld, running, backlog, cvars>>

\* A Status that always reports zero idle seconds.
no_elapsed(d) == 0

\* handle_request, Status: last.elapsed().as_secs() of last_request, in
\* ticks.
elapsed(d) == idle[d]

\* Response::Status(StatusResponse { idle_secs, .. })
StatusResponse(idle_secs) ==
  [len |-> ShortLen, body |-> "status", idle_secs |-> idle_secs]

\* handle_request: the match on the request.
HandleRequest(d) ==
  /\ UNCHANGED pvars
  /\ dpc[d] = "handle"
  /\ handled' = [handled EXCEPT ![d] = Count(@)]
  /\ CASE req[d] = "ping" ->
            /\ resp' = [resp EXCEPT ![d] = Response("pong", ShortLen)]
            /\ dpc' = [dpc EXCEPT ![d] = "count"]
            /\ UNCHANGED shutdown
       [] req[d] = "shutdown" ->
            /\ shutdown' = [shutdown EXCEPT ![d] = TRUE]
            /\ resp' = [resp EXCEPT ![d] = Response("shutdown_ack", ShortLen)]
            /\ dpc' = [dpc EXCEPT ![d] = "count"]
       [] req[d] = "status" ->
            /\ resp' = [resp EXCEPT ![d] = StatusResponse(elapsed(d))]
            /\ dpc' = [dpc EXCEPT ![d] = "count"]
            /\ UNCHANGED shutdown
       [] req[d] = "embed" ->
            /\ dpc' = [dpc EXCEPT ![d] = "embed"]
            /\ UNCHANGED <<resp, shutdown>>
  /\ UNCHANGED <<fvars, exitBy, bound, idle, sleepLeft, served, cur,
                 req, lockHeld, running, nvars, cvars>>

\* EmbeddingModel::embed before the lock: an empty batch returns Ok(vec![]),
\* a tokenizer error returns Err, anything else goes on to the session.
EmbedPrepare(d) ==
  /\ UNCHANGED pvars
  /\ dpc[d] = "embed"
  /\ \/ /\ resp' = [resp EXCEPT ![d] = Response("embed", ShortLen)]
        /\ dpc' = [dpc EXCEPT ![d] = "count"]
     \/ /\ resp' = [resp EXCEPT ![d] = Response("error", ShortLen)]
        /\ dpc' = [dpc EXCEPT ![d] = "count"]
     \/ /\ dpc' = [dpc EXCEPT ![d] = "lock"]
        /\ UNCHANGED resp
  /\ UNCHANGED <<fvars, exitBy, bound, idle, sleepLeft, shutdown, served,
                 handled, cur, req, lockHeld, running, nvars, cvars>>

\* Whether self.session.lock() may return now.
LockFree(d) == ~lockHeld[d]

\* EmbeddingModel::embed: self.session.lock(), then session.run starts.
EmbedLock(d) ==
  /\ UNCHANGED pvars
  /\ dpc[d] = "lock"
  /\ LockFree(d)
  /\ lockHeld' = [lockHeld EXCEPT ![d] = TRUE]
  /\ running' = [running EXCEPT ![d] = @ + 1]
  /\ dpc' = [dpc EXCEPT ![d] = "infer"]
  /\ UNCHANGED <<fvars, exitBy, bound, idle, sleepLeft, shutdown, served,
                 handled, cur, req, resp, nvars, cvars>>

\* An inference that returns without dropping the guard.
EmbedRunKeepsLock(d) ==
  /\ UNCHANGED pvars
  /\ dpc[d] = "infer"
  /\ \E r \in {Response("embed", ShortLen), Response("embed", MsgCap + 1),
               Response("error", ShortLen)} :
       resp' = [resp EXCEPT ![d] = r]
  /\ running' = [running EXCEPT ![d] = @ - 1]
  /\ dpc' = [dpc EXCEPT ![d] = "count"]
  /\ UNCHANGED <<fvars, exitBy, bound, idle, sleepLeft, shutdown, served,
                 handled, cur, req, lockHeld, nvars, cvars>>

\* session.run and the extraction end; the guard is dropped on every path.
\* The response's encoded length depends on the batch and may pass the cap.
EmbedRun(d) ==
  /\ UNCHANGED pvars
  /\ dpc[d] = "infer"
  /\ \E r \in {Response("embed", ShortLen), Response("embed", MsgCap + 1),
               Response("error", ShortLen)} :
       resp' = [resp EXCEPT ![d] = r]
  /\ lockHeld' = [lockHeld EXCEPT ![d] = FALSE]
  /\ running' = [running EXCEPT ![d] = @ - 1]
  /\ dpc' = [dpc EXCEPT ![d] = "count"]
  /\ UNCHANGED <<fvars, exitBy, bound, idle, sleepLeft, shutdown, served,
                 handled, cur, req, nvars, cvars>>

\* handle_connection: self.requests_served.fetch_add(1, Relaxed)
CountRequest(d) ==
  /\ UNCHANGED pvars
  /\ dpc[d] = "count"
  /\ served' = [served EXCEPT ![d] = Count(@)]
  /\ dpc' = [dpc EXCEPT ![d] = "write"]
  /\ UNCHANGED <<fvars, exitBy, bound, idle, sleepLeft, shutdown, handled,
                 cur, req, resp, lockHeld, running, nvars, cvars>>

\* handle_connection: write_all(encoded) (break on error), then the
\* ShutdownAck check (store the flag, break).
WriteResponse(d) ==
  /\ UNCHANGED pvars
  /\ dpc[d] = "write"
  /\ LET k == cur[d] IN
       IF ~conn[k].peerOpen
       THEN /\ EndConnection(d)
            /\ UNCHANGED shutdown
       ELSE IF resp[d].body = "shutdown_ack"
       THEN /\ conn' = [conn EXCEPT ![k] = SrvClosed([@ EXCEPT !.out = Append(@, resp[d])])]
            /\ cur' = [cur EXCEPT ![d] = 0]
            /\ dpc' = [dpc EXCEPT ![d] = "select"]
            /\ sleepLeft' = [sleepLeft EXCEPT ![d] = check_interval]
            /\ shutdown' = [shutdown EXCEPT ![d] = TRUE]
       ELSE /\ conn' = [conn EXCEPT ![k].out = Append(@, resp[d])]
            /\ dpc' = [dpc EXCEPT ![d] = "read"]
            /\ UNCHANGED <<cur, sleepLeft, shutdown>>
  /\ req' = [req EXCEPT ![d] = NoRequest]
  /\ resp' = [resp EXCEPT ![d] = NoResponse]
  /\ UNCHANGED <<fvars, exitBy, bound, idle, served, handled,
                 lockHeld, running, backlog, bigBody, cvars>>

\* cleanup(): remove_file(&self.socket_path), whatever socket it names.
CleanupSocket(d) ==
  /\ UNCHANGED pvars
  /\ dpc[d] = "cleanup"
  /\ sockFile' = 0
  /\ dpc' = [dpc EXCEPT ![d] = "cleanup_pid"]
  /\ UNCHANGED <<pidFile, exitBy, bound, idle, sleepLeft, shutdown, served,
                 handled, cur, req, resp, lockHeld, running, nvars,
                 cvars>>

\* cleanup(): remove_file(self.config.pid_path()); run() returns.
CleanupPid(d) ==
  /\ UNCHANGED pvars
  /\ dpc[d] = "cleanup_pid"
  /\ pidFile' = 0
  /\ Exit(d, exitBy[d])
  /\ UNCHANGED <<sockFile, bound, idle, sleepLeft, shutdown, served, handled,
                 req, resp, bigBody, cvars>>


\* ------------------------------------------------------------- streams
\* The lowest free connection slot.
IsFreeSlot(k) == /\ conn[k].st = "free"
                 /\ \A j \in Conns : j < k => conn[j].st # "free"

\* connect(&self.socket_path) succeeds when the path names the socket of a
\* live listener.
Connectable == sockFile # 0 /\ Listening(sockFile)

\* A new stream to the listener behind the path, queued for accept.
NewConn(owner, open, frames) ==
  [st |-> "backlog", to |-> sockFile, owner |-> owner, peerOpen |-> open,
   inq |-> frames, nsent |-> Len(frames), rd |-> <<>>, out |-> <<>>]

Connect(k, owner, open, frames) ==
  /\ conn' = [conn EXCEPT ![k] = NewConn(owner, open, frames)]
  /\ backlog' = [backlog EXCEPT ![sockFile] = Append(@, k)]

\* --------------------------------- peers other than DaemonClient (owner 0)
PeerConnect(k) ==
  /\ UNCHANGED pvars
  /\ IsFreeSlot(k)
  /\ Connectable
  /\ Connect(k, 0, TRUE, <<>>)
  /\ UNCHANGED <<fvars, dvars, bigBody, cvars>>

RECURSIVE SumSent(_)
SumSent(S) == IF S = {} THEN 0
              ELSE LET k == CHOOSE x \in S : TRUE
                   IN conn[k].nsent + SumSent(S \ {k})

PeerSend(k, f) ==
  /\ UNCHANGED pvars
  /\ conn[k].owner = 0
  /\ SumSent(Conns) < MaxFrames
  /\ conn[k].peerOpen
  /\ conn[k].st \in {"backlog", "accepted"}
  /\ conn[k].nsent < MaxFrames
  /\ conn[k].inq # <<>> => conn[k].inq[Len(conn[k].inq)].body # "partial"
  /\ conn' = [conn EXCEPT ![k].inq = Append(@, f), ![k].nsent = @ + 1]
  /\ UNCHANGED <<fvars, dvars, backlog, bigBody, cvars>>

PeerClose(k) ==
  /\ UNCHANGED pvars
  /\ conn[k].owner = 0
  /\ conn[k].peerOpen
  /\ conn' = [conn EXCEPT ![k] = PeerClosed(@)]
  /\ UNCHANGED <<fvars, dvars, backlog, bigBody, cvars>>

\* `serve --daemon` or `serve --foreground` typed by a user.
Launch(d) ==
  /\ UNCHANGED pvars
  /\ RunDaemonMode(d)
  /\ UNCHANGED <<fvars, nvars, cvars>>

\* ---------------------------------------------------------------- time
Tick ==
  /\ UNCHANGED pvars
  /\ idle' = [d \in Daemons |->
                IF Alive(d) /\ dpc[d] # "new"
                THEN Min(idle[d] + 1, idle_timeout + 1) ELSE idle[d]]
  /\ sleepLeft' = [d \in Daemons |->
                     IF dpc[d] = "select" /\ sleepLeft[d] > 0
                     THEN sleepLeft[d] - 1 ELSE sleepLeft[d]]
  /\ waited' = [c \in Clients |->
                  IF cpc[c] \in {"wait", "ping_connect", "ping_recv"}
                  THEN Min(waited[c] + 1, max_wait) ELSE waited[c]]
  /\ UNCHANGED <<fvars, dpc, exitBy, bound, shutdown, served, handled,
                 cur, req, resp, lockHeld, running, nvars, cpc,
                 cauto, cconn, cres, cpid, cspawned, cpong>>


\* -------------------------------------------------------- DaemonClient
\* is_running(): socket_path.exists() && UnixStream::connect(..).is_ok().
\* A successful probe is a connection, dropped at once, that the daemon
\* will accept.
Probe(c) ==
  IF Connectable
  THEN \E k \in Conns : IsFreeSlot(k) /\ Connect(k, c, FALSE, <<>>)
  ELSE UNCHANGED <<conn, backlog>>

\* send_request, after the response's prefix is read: decode_length, then
\* vec![0u8; len] and read_exact of the body, whatever the length.
ClientReadsBody(r) == TRUE

\* send_request from read_exact(len_buf) on: the response, or a SocketError
\* when the daemon closed the stream without one; the stream is dropped.
ReadResponse(c) ==
  LET k == cconn[c] IN
    /\ conn[k].out # <<>> \/ conn[k].st = "closed"
    /\ conn' = [conn EXCEPT ![k] = PeerClosed(@)]
    /\ cconn' = [cconn EXCEPT ![c] = 0]
    /\ bigBody' = IF /\ conn[k].out # <<>>
                     /\ decode_length(conn[k].out[1]) > MsgCap
                     /\ ClientReadsBody(conn[k].out[1])
                  THEN bigBody \cup {"client"} ELSE bigBody
    /\ UNCHANGED backlog

\* A command of the CLI starts: embed (ensure_running, then the request),
\* `serve` (handle_start) or `serve stop` (stop_daemon).
Invoke(c, entries) ==
  /\ UNCHANGED pvars
  /\ cpc[c] = "idle"
  /\ \E entry \in entries, auto \in BOOLEAN :
       /\ entry # "er_check" => ~auto
       /\ cpc' = [cpc EXCEPT ![c] = entry]
       /\ cauto' = [cauto EXCEPT ![c] = auto]
  /\ UNCHANGED <<fvars, dvars, nvars, cconn, waited, cres, cpid, cspawned,
                 cpong>>

\* ensure_running: is_running() => Ok; !auto_start => NotRunning; else spawn.
EnsureRunning(c) ==
  /\ UNCHANGED pvars
  /\ cpc[c] = "er_check"
  /\ Probe(c)
  /\ IF Connectable
     THEN /\ cres' = [cres EXCEPT ![c] = "ok"]
          /\ cpc' = [cpc EXCEPT ![c] = "send"]
     ELSE IF ~cauto[c]
     THEN /\ cres' = [cres EXCEPT ![c] = "not_running"]
          /\ cpc' = [cpc EXCEPT ![c] = "done"]
     ELSE /\ cpc' = [cpc EXCEPT ![c] = "er_spawn"]
          /\ UNCHANGED cres
  /\ UNCHANGED <<fvars, dvars, bigBody, cauto, cconn, waited, cpid, cspawned,
                 cpong>>

\* The lowest process slot not yet used.
IsNewProcess(d) == /\ dpc[d] = "none"
                   /\ \A e \in Daemons : e < d => dpc[e] # "none"

\* spawn_daemon / handle_start: Command::new(exe).args(["serve",
\* "--daemon"]).spawn(); ensure_running goes on to wait_for_ready.
SpawnDaemon(c, procs) ==
  /\ UNCHANGED pvars
  /\ cpc[c] \in {"er_spawn", "hs_spawn"}
  /\ \/ /\ \E d \in procs : IsNewProcess(d) /\ RunDaemonMode(d)
        /\ cspawned' = [cspawned EXCEPT ![c] = TRUE]
        /\ IF cpc[c] = "er_spawn"
           THEN /\ cpc' = [cpc EXCEPT ![c] = "wait"]
                /\ waited' = [waited EXCEPT ![c] = 0]
                /\ UNCHANGED cres
           ELSE /\ cpc' = [cpc EXCEPT ![c] = "done"]
                /\ cres' = [cres EXCEPT ![c] = "started"]
                /\ UNCHANGED waited
     \/ \* spawn() failed
        /\ cres' = [cres EXCEPT ![c] = "spawn_error"]
        /\ cpc' = [cpc EXCEPT ![c] = "done"]
        /\ UNCHANGED <<dvars, cspawned, waited>>
  /\ UNCHANGED <<fvars, nvars, cauto, cconn, cpid, cpong>>

\* A wait that gives up one tick early.
StillWaitingShort(c) == waited[c] < max_wait - 1

\* The loop condition of wait_for_ready: start.elapsed() < max_wait.
StillWaiting(c) == waited[c] < max_wait

\* wait_for_ready, the head of an iteration: Timeout once max_wait has
\* elapsed, else is_running(); when it is false the iteration only sleeps.
WaitForReady(c) ==
  /\ UNCHANGED pvars
  /\ cpc[c] = "wait"
  /\ IF ~StillWaiting(c)
     THEN /\ cres' = [cres EXCEPT ![c] = "timeout"]
          /\ cpc' = [cpc EXCEPT ![c] = "done"]
          /\ UNCHANGED <<conn, backlog>>
     ELSE /\ Connectable
          /\ Probe(c)
          /\ cpc' = [cpc EXCEPT ![c] = "ping_connect"]
          /\ UNCHANGED cres
  /\ UNCHANGED <<fvars, dvars, bigBody, cauto, cconn, waited, cpid, cspawned,
                 cpong>>

\* send_request: connect, encode_message, write_all. A failed connect is
\* ConnectionFailed.
SendRequest(c, f, okPc, failPc) ==
  IF Connectable
  THEN /\ \E k \in Conns :
            /\ IsFreeSlot(k)
            /\ Connect(k, c, TRUE, <<f>>)
            /\ cconn' = [cconn EXCEPT ![c] = k]
       /\ cpc' = [cpc EXCEPT ![c] = okPc]
  ELSE /\ cpc' = [cpc EXCEPT ![c] = failPc]
       /\ UNCHANGED <<conn, backlog, cconn>>

\* wait_for_ready: self.ping() sends Request::Ping.
PingSend(c) ==
  /\ UNCHANGED pvars
  /\ cpc[c] = "ping_connect"
  /\ SendRequest(c, Frame(ShortLen, "ping"), "ping_recv", "wait")
  /\ UNCHANGED <<fvars, dvars, bigBody, cauto, waited, cres, cpid, cspawned,
                 cpong>>

\* What ping() makes of the response: only Response::Pong is Ok.
IsPong(r) == r.body = "pong"

\* wait_for_ready: ping() returned; Ok(()) ends the wait, an error sleeps.
PingRecv(c) ==
  /\ UNCHANGED pvars
  /\ cpc[c] = "ping_recv"
  /\ ReadResponse(c)
  /\ LET out == conn[cconn[c]].out IN
       IF out # <<>> /\ IsPong(out[1])
       THEN /\ cres' = [cres EXCEPT ![c] = "ok"]
            /\ cpong' = [cpong EXCEPT ![c] = TRUE]
            /\ cpc' = [cpc EXCEPT ![c] = "send"]
       ELSE /\ cpc' = [cpc EXCEPT ![c] = "wait"]
            /\ UNCHANGED <<cres, cpong>>
  /\ UNCHANGED <<fvars, dvars, cauto, waited, cpid, cspawned>>

\* embed(): after ensure_running, send_request(Request::Embed(..)); the
\* request's encoded length depends on the texts.
EmbedSend(c) ==
  /\ UNCHANGED pvars
  /\ cpc[c] = "send"
  /\ \E len \in {ShortLen, MsgCap + 1} :
       SendRequest(c, Frame(len, "embed"), "recv", "done")
  /\ UNCHANGED <<fvars, dvars, bigBody, cauto, waited, cres, cpid, cspawned,
                 cpong>>

\* embed(): the response (or the error) is returned.
EmbedRecv(c) ==
  /\ UNCHANGED pvars
  /\ cpc[c] = "recv"
  /\ ReadResponse(c)
  /\ cpc' = [cpc EXCEPT ![c] = "done"]
  /\ UNCHANGED <<fvars, dvars, cauto, waited, cres, cpid, cspawned, cpong>>

\* handle_start: client.is_running() => "Daemon is already running".
HandleStart(c) ==
  /\ UNCHANGED pvars
  /\ cpc[c] = "hs_check"
  /\ Probe(c)
  /\ IF Connectable
     THEN /\ cres' = [cres EXCEPT ![c] = "already_running"]
          /\ cpc' = [cpc EXCEPT ![c] = "done"]
     ELSE /\ cpc' = [cpc EXCEPT ![c] = "hs_spawn"]
          /\ UNCHANGED cres
  /\ UNCHANGED <<fvars, dvars, bigBody, cauto, cconn, waited, cpid, cspawned,
                 cpong>>

\* stop_daemon: !pid_path.exists() => NotRunning; else read and parse it.
StopReadPid(c) ==
  /\ UNCHANGED pvars
  /\ cpc[c] = "sd_read"
  /\ IF pidFile = 0
     THEN /\ cres' = [cres EXCEPT ![c] = "not_running"]
          /\ cpc' = [cpc EXCEPT ![c] = "done"]
          /\ UNCHANGED cpid
     ELSE /\ cpid' = [cpid EXCEPT ![c] = pidFile]
          /\ cpc' = [cpc EXCEPT ![c] = "sd_kill"]
          /\ UNCHANGED cres
  /\ UNCHANGED <<fvars, dvars, nvars, cauto, cconn, waited, cspawned, cpong>>

\* stop_daemon: kill(pid, SIGTERM)?. The daemon installs no SIGTERM handler:
\* the process ends at once. No such process is an error.
StopKill(c) ==
  /\ UNCHANGED pvars
  /\ cpc[c] = "sd_kill"
  /\ IF Alive(cpid[c])
     THEN /\ Exit(cpid[c], "sigterm")
          /\ cpc' = [cpc EXCEPT ![c] = "sd_rm_pid"]
          /\ UNCHANGED cres
     ELSE /\ cres' = [cres EXCEPT ![c] = "error"]
          /\ cpc' = [cpc EXCEPT ![c] = "done"]
          /\ UNCHANGED <<dpc, exitBy, conn, backlog, cur, lockHeld, running>>
  /\ UNCHANGED <<fvars, bound, idle, sleepLeft, shutdown, served, handled,
                 req, resp, bigBody, cauto, cconn, waited, cpid,
                 cspawned, cpong>>

\* stop_daemon: remove_file(&pid_path)
StopRemovePid(c) ==
  /\ UNCHANGED pvars
  /\ cpc[c] = "sd_rm_pid"
  /\ pidFile' = 0
  /\ cpc' = [cpc EXCEPT ![c] = "sd_rm_sock"]
  /\ UNCHANGED <<sockFile, dvars, nvars, cauto, cconn, waited, cres, cpid,
                 cspawned, cpong>>

\* A stop_daemon that returns Ok without removing the socket file.
StopLeavesSocket(c) ==
  /\ UNCHANGED pvars
  /\ cpc[c] = "sd_rm_sock"
  /\ cres' = [cres EXCEPT ![c] = "stopped"]
  /\ cpc' = [cpc EXCEPT ![c] = "done"]
  /\ UNCHANGED <<fvars, dvars, nvars, cauto, cconn, waited, cpid, cspawned,
                 cpong>>

\* stop_daemon: remove_file(config.socket_path()); Ok(())
StopRemoveSocket(c) ==
  /\ UNCHANGED pvars
  /\ cpc[c] = "sd_rm_sock"
  /\ sockFile' = 0
  /\ cres' = [cres EXCEPT ![c] = "stopped"]
  /\ cpc' = [cpc EXCEPT ![c] = "done"]
  /\ UNCHANGED <<pidFile, dvars, nvars, cauto, cconn, waited, cpid, cspawned,
                 cpong>>

\* The command's process ends; the slot stands for the next invocation.
Return(c) ==
  /\ UNCHANGED pvars
  /\ cpc[c] = "done"
  /\ cpc' = [cpc EXCEPT ![c] = "idle"]
  /\ cauto' = [cauto EXCEPT ![c] = FALSE]
  /\ waited' = [waited EXCEPT ![c] = 0]
  /\ cres' = [cres EXCEPT ![c] = "none"]
  /\ cpid' = [cpid EXCEPT ![c] = 0]
  /\ cspawned' = [cspawned EXCEPT ![c] = FALSE]
  /\ cpong' = [cpong EXCEPT ![c] = FALSE]
  /\ UNCHANGED <<fvars, dvars, nvars, cconn>>

\* ------------------------------------------------------- specification
\* The daemon side before any process has started; lefts says whether an
\* earlier daemon may have left its files behind.
SystemInit(lefts) ==
  /\ \E left \in lefts : sockFile = left /\ pidFile = left
  /\ dpc = [d \in Daemons |-> "none"]
  /\ exitBy = [d \in Daemons |-> "none"]
  /\ bound = [d \in Daemons |-> FALSE]
  /\ idle = [d \in Daemons |-> 0]
  /\ sleepLeft = [d \in Daemons |-> 0]
  /\ shutdown = [d \in Daemons |-> FALSE]
  /\ served = [d \in Daemons |-> 0]
  /\ handled = [d \in Daemons |-> 0]
  /\ cur = [d \in Daemons |-> 0]
  /\ req = [d \in Daemons |-> NoRequest]
  /\ resp = [d \in Daemons |-> NoResponse]
  /\ lockHeld = [d \in Daemons |-> FALSE]
  /\ running = [d \in Daemons |-> 0]
  /\ conn = [k \in Conns |-> FreeConn]
  /\ backlog = [d \in Daemons |-> <<>>]
  /\ bigBody = {}
  /\ cpc = [c \in Clients |-> "idle"]
  /\ cauto = [c \in Clients |-> FALSE]
  /\ cconn = [c \in Clients |-> 0]
  /\ waited = [c \in Clients |-> 0]
  /\ cres = [c \in Clients |-> "none"]
  /\ cpid = [c \in Clients |-> 0]
  /\ cspawned = [c \in Clients |-> FALSE]
  /\ cpong = [c \in Clients |-> FALSE]

\* No document has been given to the chunker.
ChunkerIdle ==
  /\ content = <<>>
  /\ config = [chunk_size |-> 0, chunk_overlap |-> 0]
  /\ chunks = <<>>
  /\ chunked = FALSE

\* No collection, no table, no store operation run.
StoreIdle ==
  /\ qdrant = <<>>
  /\ qseen = <<>>
  /\ pg = <<>>
  /\ cmd = [op |-> "none"]
  /\ embedding_dim = 1
  /\ qdim = 0
  /\ pdim = 0

\* with_retry has not been called.
RetryIdle ==
  /\ retry_config = [max_retries |-> 0, initial_delay |-> 0, max_delay |-> 0,
                     multiplier |-> 0]
  /\ results = <<>>
  /\ rpc = "idle"
  /\ attempts = 0
  /\ delay = 0
  /\ invoked = 0
  /\ retried = [kind |-> "none"]

\* split_with_overlap has not been called.
SplitIdle == wpc = "idle" /\ wstart = 0 /\ wpushed = <<>>

\* `index add` has not been run and nothing is stored.
IndexIdle ==
  /\ ipc = "idle"
  /\ files = <<>>
  /\ batch_size = 1
  /\ ipos = 1
  /\ pending_chunks = <<>>
  /\ pending_texts = <<>>
  /\ indexed = {}
  /\ handed = <<>>
  /\ produced = <<>>
  /\ batched = "none"
  /\ runs = 0

\* Nothing else than the daemon and its clients is at work.
ToolsIdle == ChunkerIdle /\ StoreIdle /\ RetryIdle /\ SplitIdle /\ IndexIdle

Init == SystemInit({0, Stale}) /\ ToolsIdle

\* run() from the start of the process to its end, serving no request:
\* what a daemon does for peers that only probe it.
LifecycleStep(d) ==
  \/ New(d) \/ CheckStale(d) \/ RemoveStale(d) \/ Bind(d) \/ WritePid(d)
  \/ Accept(d) \/ TimerFire(d) \/ ReadFrame(d)
  \/ CleanupSocket(d) \/ CleanupPid(d)

\* handle_connection from a deserialized request to its response.
ServeStep(d) ==
  \/ HandleRequest(d) \/ EmbedPrepare(d) \/ EmbedLock(d) \/ EmbedRun(d)
  \/ CountRequest(d) \/ WriteResponse(d)

DaemonStep(d) == LifecycleStep(d) \/ ServeStep(d)

\* DaemonClient::embed: ensure_running, then one round trip.
EmbedStep(c, procs) ==
  \/ EnsureRunning(c) \/ SpawnDaemon(c, procs) \/ WaitForReady(c)
  \/ PingSend(c) \/ PingRecv(c) \/ EmbedSend(c) \/ EmbedRecv(c) \/ Return(c)

\* `serve` and `serve stop`.
ServeCommandStep(c, procs) ==
  \/ HandleStart(c) \/ SpawnDaemon(c, procs)
  \/ StopReadPid(c) \/ StopKill(c) \/ StopRemovePid(c)
  \/ StopRemoveSocket(c) \/ Return(c)

\* --- Spec: one daemon process (daemon 1) and arbitrary local peers.
ProtoNext ==
  \/ DaemonStep(1)
  \/ Launch(1) \/ AcceptError(1) \/ SigInt(1)
  \/ \E k \in Conns : PeerConnect(k) \/ PeerClose(k)
  \/ \E k \in Conns, f \in Frames : PeerSend(k, f)
  \/ Tick

Spec == Init /\ [][ProtoNext]_vars

\* The daemon runs whenever it can, the timer branch of select! is taken
\* if it is ready again and again, time passes, and a peer does not hold
\* its connection for ever.
FairSpec ==
  /\ Spec
  /\ WF_vars(Tick)
  /\ WF_vars(DaemonStep(1))
  /\ SF_vars(TimerFire(1))
  /\ \A k \in Conns : WF_vars(PeerClose(k))

\* --- ClientSpec: one embedding client (client 1) and the daemon it uses.
ClientNext ==
  \/ DaemonStep(1)
  \/ Launch(1)
  \/ Invoke(1, {"er_check"})
  \/ EmbedStep(1, {1})
  \/ Tick

ClientSpec == Init /\ [][ClientNext]_vars

FairClientSpec ==
  /\ ClientSpec
  /\ WF_vars(Tick)
  /\ WF_vars(DaemonStep(1))
  /\ WF_vars(EmbedStep(1, {1}))

\* --- ServeSpec: the serve command on one socket path: daemons started by
\* users and by `serve`, stopped by `serve stop`, signals and idleness.
ServeNext ==
  \/ \E d \in Daemons : LifecycleStep(d) \/ Launch(d) \/ SigInt(d)
  \/ \E c \in Clients : Invoke(c, {"hs_check", "sd_read"})
  \/ \E c \in Clients : ServeCommandStep(c, Daemons)
  \/ Tick

ServeSpec == Init /\ [][ServeNext]_vars

\* ------------------------------------------------------------- chunker
\* services/chunker.rs. A content is the sequence of its characters; "U2"
\* stands for a character of two UTF-8 bytes (such as e-acute), every other
\* character is ASCII. Line numbers are left out of the chunks.
MaxSegs == 3

\* has_meaningful_content's threshold (utils/text.rs:4)
MIN_CONTENT_LENGTH == 50

\* n times the character ch
Run(ch, n) == [i \in 1..n |-> ch]

\* The pieces contents are made of: runs of letters, whitespace, breaks.
Segments ==
  { Run("a", 60), Run("a", 50), Run("a", 3), Run("U2", 30),
    <<" ">>, <<"\n">>, <<"\n", "\n">>, <<".", " ">> }

RECURSIVE Concat(_)
Concat(ss) == IF ss = <<>> THEN <<>> ELSE Head(ss) \o Concat(Tail(ss))

\* "Hello. This is a test of chunking behavior." (43 characters)
Hello ==
  <<"H", "e", "l", "l", "o", ".", " ", "T", "h", "i", "s", " ", "i", "s",
    " ", "a", " ", "t", "e", "s", "t", " ", "o", "f", " ", "c", "h", "u",
    "n", "k", "i", "n", "g", " ", "b", "e", "h", "a", "v", "i", "o", "r",
    ".">>

\* The contents given to the chunker.
Contents ==
  {Hello} \cup
  UNION { {Concat(ss) : ss \in [1..n -> Segments]} : n \in 0..MaxSegs }

\* The configurations given to TextChunker::new, in tokens.
Configs == [chunk_size : {5, 15, 20}, chunk_overlap : {0, 1, 2, 20}]

\* char::is_whitespace on the characters used here
is_whitespace(c) == c \in {" ", "\n", "\t"}

\* char::len_utf8
len_utf8(c) == IF c = "U2" THEN 2 ELSE 1

\* str::len: the length in bytes
ByteLen(cs) ==
  Len(cs) + Cardinality({i \in 1..Len(cs) : len_utf8(cs[i]) = 2})

\* TextChunker::new: tokens to characters
TextChunker(cfg) ==
  [chunk_size |-> cfg.chunk_size * 4, overlap |-> cfg.chunk_overlap * 4]

\* utils/text.rs has_meaningful_content
has_meaningful_content(cs) ==
  Cardinality({i \in 1..Len(cs) : ~is_whitespace(cs[i])}) >= MIN_CONTENT_LENGTH

\* The greatest element of a non-empty set of numbers.
Max(S) == CHOOSE x \in S : \A y \in S : y <= x

\* find_break_point. Positions are 0-based as in the code: chars[p] there is
\* chars[p + 1] here.
find_break_point(self, chars, target_end, total) ==
  IF target_end >= total THEN total
  ELSE
    LET fifth == self.chunk_size \div 5
        search_start == IF target_end > fifth THEN target_end - fifth ELSE 0
        range == search_start..(target_end - 1)
        At(p) == chars[p + 1]
        paragraph == {p + 1 : p \in {q \in range : /\ At(q) = "\n"
                                                  /\ q > search_start
                                                  /\ At(q - 1) = "\n"}}
        newline == {p + 1 : p \in {q \in range : At(q) = "\n"}}
        sentence == {p + 1 : p \in {q \in range : /\ At(q) \in {".", "!", "?"}
                                                 /\ q + 1 < target_end
                                                 /\ is_whitespace(At(q + 1))}}
        space == {p + 1 : p \in {q \in range : At(q) \in {" ", "\t"}}}
    IN IF paragraph # {} THEN Max(paragraph)
       ELSE IF newline # {} THEN Max(newline)
       ELSE IF sentence # {} THEN Max(sentence)
       ELSE IF space # {} THEN Max(space)
       ELSE target_end

\* The distance between the starts of two windows.
WindowStep(self) ==
  IF self.chunk_size > self.overlap THEN self.chunk_size - self.overlap
  ELSE self.chunk_size

\* The while loop of split_with_overlap from the window that starts at
\* start: (content, start, adjusted_end) of each window.
RECURSIVE SplitFrom(_, _, _)
SplitFrom(self, chars, start) ==
  LET total == Len(chars)
      end == Min(start + self.chunk_size, total)
      adjusted_end == find_break_point(self, chars, end, total)
      piece == [content |-> SubSeq(chars, start + 1, adjusted_end),
                start_offset |-> start, end_offset |-> adjusted_end]
  IN IF adjusted_end >= total \/ start + WindowStep(self) >= total
     THEN <<piece>>
     ELSE <<piece>> \o SplitFrom(self, chars, start + WindowStep(self))

\* split_with_overlap
split_with_overlap(self, chars) ==
  IF Len(chars) = 0 THEN <<>> ELSE SplitFrom(self, chars, 0)

\* chunk() without its filter: every window becomes a chunk.
KeepsEveryWindow(w) == TRUE

\* The predicate of the filter in chunk(): which windows become chunks.
KeepsWindow(w) == has_meaningful_content(w.content)

\* DocumentChunk::from_document, without the fields copied from the document
DocumentChunk(piece, idx, total) ==
  [content |-> piece.content, chunk_index |-> idx, total_chunks |-> total,
   start_offset |-> piece.start_offset, end_offset |-> piece.end_offset]

\* chunk() numbering the windows before the filter instead of after it.
chunkNumbersWindows(self, doc) ==
  IF doc = <<>> THEN <<>>
  ELSE IF ByteLen(doc) <= self.chunk_size
  THEN <<DocumentChunk([content |-> doc, start_offset |-> 0,
                        end_offset |-> ByteLen(doc)], 0, 1)>>
  ELSE LET all == split_with_overlap(self, doc)
           numbered == [i \in 1..Len(all) |->
                          DocumentChunk(all[i], i - 1, Len(all))]
           KeepsChunk(c) == has_meaningful_content(c.content)
       IN SelectSeq(numbered, KeepsChunk)

\* TextChunker::chunk
chunk(self, doc) ==
  IF doc = <<>> THEN <<>>
  ELSE IF ByteLen(doc) <= self.chunk_size
  THEN <<DocumentChunk([content |-> doc, start_offset |-> 0,
                        end_offset |-> ByteLen(doc)], 0, 1)>>
  ELSE LET kept == SelectSeq(split_with_overlap(self, doc), KeepsWindow)
       IN [i \in 1..Len(kept) |-> DocumentChunk(kept[i], i - 1, Len(kept))]

\* A document is chunked.
Chunk ==
  /\ ~chunked
  /\ chunks' = chunk(TextChunker(config), content)
  /\ chunked' = TRUE
  /\ UNCHANGED <<content, config, svars, gvars, rvars, wvars, ivars, fvars,
                 dvars, nvars, cvars>>

ChunkInit ==
  /\ SystemInit({0})
  /\ StoreIdle
  /\ RetryIdle
  /\ SplitIdle
  /\ IndexIdle
  /\ content \in Contents
  /\ config \in Configs
  /\ chunks = <<>>
  /\ chunked = FALSE

ChunkSpec == ChunkInit /\ [][Chunk]_vars

\* ---- chunk() step by step: one turn of the while loop of
\* split_with_overlap at a time, for the configurations on which the loop
\* may not end.
MaxWindows == 48

\* Configurations with chunk_size 0 and with overlap >= chunk_size.
LoopConfigs == [chunk_size : {0, 1, 5}, chunk_overlap : {0, 1, 5}]

\* chunk() up to the call of split_with_overlap and the start of its loop.
ChunkBegin ==
  /\ wpc = "idle"
  /\ wstart' = 0
  /\ wpushed' = <<>>
  /\ wpc' = IF \/ content = <<>>
               \/ ByteLen(content) <= TextChunker(config).chunk_size
            THEN "done" ELSE "loop"
  /\ UNCHANGED <<kvars, svars, gvars, rvars, ivars, fvars, dvars, nvars,
                 cvars>>

\* One turn of `while start < total_chars`.
SplitTurn ==
  /\ wpc = "loop"
  /\ Len(wpushed) < MaxWindows
  /\ LET self == TextChunker(config)
         total == Len(content)
         end == Min(wstart + self.chunk_size, total)
         adjusted_end == find_break_point(self, content, end, total)
     IN /\ wpushed' = Append(wpushed, <<wstart, adjusted_end>>)
        /\ IF adjusted_end >= total
           THEN wpc' = "done" /\ UNCHANGED wstart
           ELSE /\ wstart' = wstart + WindowStep(self)
                /\ wpc' = IF wstart' >= total THEN "done" ELSE "loop"
  /\ UNCHANGED <<kvars, svars, gvars, rvars, ivars, fvars, dvars, nvars,
                 cvars>>

SplitInit ==
  /\ SystemInit({0})
  /\ StoreIdle
  /\ RetryIdle
  /\ SplitIdle
  /\ IndexIdle
  /\ content \in Contents
  /\ config \in LoopConfigs
  /\ chunks = <<>>
  /\ chunked = FALSE

SplitSpec == SplitInit /\ [][ChunkBegin \/ SplitTurn]_vars

\* -------------------------------------------------------- vector store
\* services/vector_store/{qdrant,pgvector}.rs behind the VectorStore trait,
\* and the older VectorStoreClient of services/vector_store.rs that the
\* search command uses. The two stores are kept side by side and every
\* operation is applied to both. Of a chunk the url, the checksum, the
\* dates and the line numbers are left out; both backends copy them the
\* same way. Among points of equal score the smaller id comes first.
MaxPoints == 2
MaxBatch == 2
MaxLimit == 2
MaxDim == 2

Ids == 1..MaxPoints

\* The embedding dimensions a backend may be built with.
Dims == 1..MaxDim

\* A store that does not exist, a point that is not stored, no filter.
NoCollection == <<>>
NoPoint == [stored |-> FALSE]
NoFilter == [kind |-> "none"]

TagA == [key |-> "project", value |-> "x"]
TagB == [key |-> "team", value |-> "y"]
TagS == [key |-> "source", value |-> "jira"]

\* Tag::to_payload_string: "key:value", kept as its two halves
to_payload_string(tag) == <<tag.key, tag.value>>

\* Tag::from_str
parse_tag(str) == [key |-> str[1], value |-> str[2]]

\* The place of a tag string in the order of strings.
StrRank(str) ==
  CASE str = <<"project", "x">> -> 1
    [] str = <<"source", "jira">> -> 2
    [] str = <<"team", "y">> -> 3

\* SourceType's Display
to_string(st) ==
  CASE st = "Local" -> "local"
    [] st = "Jira" -> "jira"
    [] st = "Confluence" -> "confluence"

\* SourceType::from_str
from_str(str) ==
  CASE str = "local" -> "Local"
    [] str = "jira" -> "Jira"
    [] str = "confluence" -> "Confluence"
    [] OTHER -> <<"Other", str>>

\* What a chunk may carry besides its id.
Payloads ==
  { [tags |-> <<TagA>>, source_type |-> "Local",
     dense_vector |-> 1, content |-> "one"],
    [tags |-> <<TagA, TagB>>, source_type |-> "Jira",
     dense_vector |-> 2, content |-> "one"],
    [tags |-> <<TagB, TagS>>, source_type |-> "Confluence",
     dense_vector |-> 1, content |-> "two"] }

\* The embedded chunks handed to upsert_points; a chunk id belongs to one
\* document.
EmbeddedChunks ==
  { [id |-> i, document_id |-> i, tags |-> p.tags,
     source_type |-> p.source_type, dense_vector |-> p.dense_vector,
     content |-> p.content] : i \in Ids, p \in Payloads }

Batches == UNION { [1..n -> EmbeddedChunks] : n \in 0..MaxBatch }

\* Cosine similarity of the query vector and a stored vector, in halves.
Similarity(query_vector, vector) == IF query_vector = vector THEN 2 ELSE 1

\* The ids of S by descending score.
RECURSIVE ByScore(_, _)
ByScore(S, score) ==
  IF S = {} THEN <<>>
  ELSE LET best == CHOOSE i \in S : \A j \in S :
                     \/ score[i] > score[j]
                     \/ score[i] = score[j] /\ i <= j
       IN <<best>> \o ByScore(S \ {best}, score)

\* The first n elements of q.
Take(q, n) == SubSeq(q, 1, Min(n, Len(q)))

\* Tag counts as both backends return them: by count descending, then by
\* tag ascending.
RECURSIVE SortTagCounts(_, _)
SortTagCounts(S, count) ==
  IF S = {} THEN <<>>
  ELSE LET first == CHOOSE a \in S : \A b \in S :
                      \/ count[a] > count[b]
                      \/ count[a] = count[b] /\ StrRank(a) <= StrRank(b)
       IN <<(<<first, count[first]>>)>> \o SortTagCounts(S \ {first}, count)

\* ---- Qdrant: points by id, filters of must and should conditions
\* A condition is a match of a payload key with a value, or a filter.
Matches(key, value) == [kind |-> "match", key |-> key, value |-> value]
FilterMust(conditions) ==
  [kind |-> "filter", must |-> conditions, should |-> <<>>]
FilterShould(conditions) ==
  [kind |-> "filter", must |-> <<>>, should |-> conditions]

\* Whether a payload satisfies a condition. A match on a list holds when
\* some element is the value.
RECURSIVE QdrantHolds(_, _)
QdrantHolds(cond, payload) ==
  IF cond.kind = "match"
  THEN IF cond.key = "tags"
       THEN \E k \in DOMAIN payload.tags : payload.tags[k] = cond.value
       ELSE payload[cond.key] = cond.value
  ELSE /\ \A k \in DOMAIN cond.must : QdrantHolds(cond.must[k], payload)
       /\ \/ cond.should = <<>>
          \/ \E k \in DOMAIN cond.should : QdrantHolds(cond.should[k], payload)

\* The ids of the stored points.
Stored(store) == {i \in Ids : store[i] # NoPoint}

\* PointStruct::new with the payload upsert_points builds
PointStruct(dchunk) ==
  [vector |-> dchunk.dense_vector,
   payload |-> [document_id |-> dchunk.document_id,
                content |-> dchunk.content,
                source_type |-> to_string(dchunk.source_type),
                tags |-> [k \in DOMAIN dchunk.tags |->
                            to_payload_string(dchunk.tags[k])]]]

\* Qdrant's upsert of a list of points, in order.
RECURSIVE QdrantUpsert(_, _)
QdrantUpsert(coll, batch) ==
  IF batch = <<>> THEN coll
  ELSE QdrantUpsert([coll EXCEPT ![Head(batch).id] = PointStruct(Head(batch))],
                    Tail(batch))

\* Qdrant's delete of the points a filter selects.
QdrantDelete(coll, filter) ==
  [i \in Ids |-> IF i \in Stored(coll) /\ QdrantHolds(filter, coll[i].payload)
                 THEN NoPoint ELSE coll[i]]

\* Qdrant's search: the ids of the best limit points that pass the filter
\* and the score threshold (<<>> for none).
QdrantSearch(coll, query_vector, limit, filter, score_threshold) ==
  LET score == [i \in Ids |->
                  IF i \in Stored(coll)
                  THEN Similarity(query_vector, coll[i].vector) ELSE 0]
      hits == {i \in Stored(coll) :
                 /\ filter # NoFilter => QdrantHolds(filter, coll[i].payload)
                 /\ score_threshold # <<>> => score[i] >= score_threshold[1]}
  IN Take(ByScore(hits, score), limit)

\* The SearchResult both Qdrant clients build of a scored point
QdrantResult(coll, query_vector, i) ==
  [chunk_id |-> i,
   score |-> Similarity(query_vector, coll[i].vector),
   content |-> coll[i].payload.content,
   source_type |-> from_str(coll[i].payload.source_type),
   tags |-> [k \in DOMAIN coll[i].payload.tags |->
               parse_tag(coll[i].payload.tags[k])]]

\* QdrantBackend::build_search_filter
build_search_filter(tags, source_types) ==
  LET tag_conditions ==
        [k \in DOMAIN tags |-> Matches("tags", to_payload_string(tags[k]))]
      source_conditions ==
        [k \in DOMAIN source_types |->
           Matches("source_type", to_string(source_types[k]))]
      must_conditions ==
        IF source_types # <<>>
        THEN Append(tag_conditions, FilterShould(source_conditions))
        ELSE tag_conditions
  IN IF must_conditions = <<>> THEN NoFilter ELSE FilterMust(must_conditions)

\* The filter VectorStoreClient::search builds
client_search_filter(tags, source_types) ==
  LET filter_conditions ==
        [k \in DOMAIN tags |-> Matches("tags", to_payload_string(tags[k]))]
        \o [k \in DOMAIN source_types |->
              Matches("source_type", to_string(source_types[k]))]
  IN IF filter_conditions = <<>> THEN NoFilter
     ELSE FilterMust(filter_conditions)

\* ---- pgvector: rows by id, WHERE clauses
\* A WHERE clause is a conjunction or disjunction of clauses, or a test of
\* one row: value = ANY(column), column = value, column IN (values), or
\* 1 - (embedding <=> $1) >= value.
SqlAnd(parts) == [kind |-> "and", parts |-> parts]
SqlOr(parts) == [kind |-> "or", parts |-> parts]
SqlAnyOf(column, value) ==
  [kind |-> "any_of", column |-> column, value |-> value]
SqlEquals(column, value) ==
  [kind |-> "equals", column |-> column, value |-> value]
SqlIn(column, values) == [kind |-> "in", column |-> column, values |-> values]
SqlScoreAtLeast(value) == [kind |-> "score", value |-> value]

\* The cosine distance pgvector orders by.
Distance(embedding, query_vector) == 2 - Similarity(query_vector, embedding)

\* Whether a row satisfies a WHERE clause.
RECURSIVE SqlHolds(_, _, _)
SqlHolds(where, row, query_vector) ==
  CASE where.kind = "and" ->
         \A k \in DOMAIN where.parts :
           SqlHolds(where.parts[k], row, query_vector)
    [] where.kind = "or" ->
         \E k \in DOMAIN where.parts :
           SqlHolds(where.parts[k], row, query_vector)
    [] where.kind = "any_of" ->
         \E k \in DOMAIN row[where.column] :
           row[where.column][k] = where.value
    [] where.kind = "equals" -> row[where.column] = where.value
    [] where.kind = "in" ->
         \E k \in DOMAIN where.values : row[where.column] = where.values[k]
    [] where.kind = "score" ->
         2 - Distance(row.embedding, query_vector) >= where.value

\* The row upsert_points binds
PgRow(dchunk) ==
  [document_id |-> dchunk.document_id,
   content |-> dchunk.content,
   embedding |-> dchunk.dense_vector,
   source_type |-> to_string(dchunk.source_type),
   tags |-> [k \in DOMAIN dchunk.tags |-> to_payload_string(dchunk.tags[k])]]

\* INSERT ... ON CONFLICT (id) DO NOTHING: an id that is stored keeps its
\* row.
RECURSIVE PgInsertOnly(_, _)
PgInsertOnly(table, batch) ==
  IF batch = <<>> THEN table
  ELSE PgInsertOnly(IF Head(batch).id \in Stored(table) THEN table
                    ELSE [table EXCEPT ![Head(batch).id] = PgRow(Head(batch))],
                    Tail(batch))

\* INSERT ... ON CONFLICT (id) DO UPDATE for each chunk of the batch, in
\* one transaction.
RECURSIVE PgUpsert(_, _)
PgUpsert(table, batch) ==
  IF batch = <<>> THEN table
  ELSE PgUpsert([table EXCEPT ![Head(batch).id] = PgRow(Head(batch))],
                Tail(batch))

\* DELETE FROM table WHERE where
SqlDelete(table, where) ==
  [i \in Ids |-> IF i \in Stored(table) /\ SqlHolds(where, table[i], 0)
                 THEN NoPoint ELSE table[i]]

\* SELECT ... WHERE where ORDER BY embedding <=> $1 LIMIT limit: the ids
SqlSelect(table, query_vector, where, limit) ==
  LET closeness == [i \in Ids |->
                      IF i \in Stored(table)
                      THEN 2 - Distance(table[i].embedding, query_vector)
                      ELSE 0]
      rows == {i \in Stored(table) :
                 where # NoFilter => SqlHolds(where, table[i], query_vector)}
  IN Take(ByScore(rows, closeness), limit)

\* The SearchResult PgVectorBackend::search builds of a row
PgResult(table, query_vector, i) ==
  [chunk_id |-> i,
   score |-> 2 - Distance(table[i].embedding, query_vector),
   content |-> table[i].content,
   source_type |-> from_str(table[i].source_type),
   tags |-> [k \in DOMAIN table[i].tags |-> parse_tag(table[i].tags[k])]]

\* The WHERE clause PgVectorBackend::search builds
pg_search_where(tags, source_types, min_score) ==
  LET tag_parts ==
        [k \in DOMAIN tags |-> SqlAnyOf("tags", to_payload_string(tags[k]))]
      source_parts ==
        IF source_types # <<>>
        THEN <<SqlIn("source_type",
                     [k \in DOMAIN source_types |->
                        to_string(source_types[k])])>>
        ELSE <<>>
      score_parts ==
        IF min_score # <<>> THEN <<SqlScoreAtLeast(min_score[1])>> ELSE <<>>
      where_parts == tag_parts \o source_parts \o score_parts
  IN IF where_parts = <<>> THEN NoFilter ELSE SqlAnd(where_parts)

\* ---- the operations: the store afterwards, the result, and the number
\* of requests sent to the backend
Outcome(store, res, calls) == [store |-> store, res |-> res, calls |-> calls]

\* Ok(list) and Err(error) of the operations that return a list
Listed(list) == [error |-> "Ok", list |-> list]
Failed(error) == [error |-> error, list |-> <<>>]

Empty == [i \in Ids |-> NoPoint]

\* The vector size of what create_collection leaves: that of the collection
\* found, else the backend's embedding_dim (VectorParamsBuilder::new, and
\* the column embedding vector({}) of CREATE TABLE).
created_dim(dim, self_dim) == IF dim # 0 THEN dim ELSE self_dim

\* QdrantBackend::clear_collection: delete_collection, then
\* create_collection.
qdrant_cleared_dim(dim, self_dim) ==
  IF dim = 0 THEN 0 ELSE created_dim(0, self_dim)

\* PgVectorBackend::clear_collection: TRUNCATE TABLE keeps the columns.
pg_cleared_dim(dim, self_dim) == dim

\* A store rejects a batch whose vectors are not of its size; the vectors
\* handed to a backend have the size it was built with.
Rejects(dim, self_dim, batch) == batch # <<>> /\ dim # 0 /\ dim # self_dim

\* create_collection deleting what it finds.
qdrant_create_anew(coll) ==
  IF coll # NoCollection THEN [store |-> [i \in Ids |-> NoPoint],
                               res |-> "Ok", calls |-> 1]
  ELSE [store |-> [i \in Ids |-> NoPoint], res |-> "Ok", calls |-> 2]

\* QdrantBackend::create_collection
qdrant_create_collection(coll) ==
  IF coll # NoCollection THEN Outcome(coll, "Ok", 1)
  ELSE Outcome(Empty, "Ok", 2)

\* PgVectorBackend::create_collection
pg_create_collection(table) ==
  IF table # NoCollection THEN Outcome(table, "Ok", 2)
  ELSE Outcome(Empty, "Ok", 6)

\* QdrantBackend::upsert_points
qdrant_upsert_points(coll, batch) ==
  IF batch = <<>> THEN Outcome(coll, "Ok", 0)
  ELSE IF coll = NoCollection THEN Outcome(coll, "UpsertError", 1)
  ELSE Outcome(QdrantUpsert(coll, batch), "Ok", 1)

\* PgVectorBackend::upsert_points
pg_upsert_points(table, batch) ==
  IF batch = <<>> THEN Outcome(table, "Ok", 0)
  ELSE IF table = NoCollection THEN Outcome(table, "UpsertError", 2)
  ELSE Outcome(PgUpsert(table, batch), "Ok", Len(batch) + 2)

\* QdrantBackend::search
qdrant_search(coll, query_vector, limit, tags, source_types, min_score) ==
  IF coll = NoCollection THEN Failed("SearchError")
  ELSE LET found == QdrantSearch(coll, query_vector, limit,
                                 build_search_filter(tags, source_types),
                                 min_score)
       IN Listed([k \in DOMAIN found |->
                       QdrantResult(coll, query_vector, found[k])])

\* PgVectorBackend::search
pg_search(table, query_vector, limit, tags, source_types, min_score) ==
  IF table = NoCollection THEN Failed("SearchError")
  ELSE LET found == SqlSelect(table, query_vector,
                              pg_search_where(tags, source_types, min_score),
                              limit)
       IN Listed([k \in DOMAIN found |->
                       PgResult(table, query_vector, found[k])])

\* VectorStoreClient::search
client_search(coll, query_vector, limit, tags, source_types, min_score) ==
  IF coll = NoCollection THEN Failed("SearchError")
  ELSE LET found == QdrantSearch(coll, query_vector, limit,
                                 client_search_filter(tags, source_types),
                                 min_score)
       IN Listed([k \in DOMAIN found |->
                       QdrantResult(coll, query_vector, found[k])])

\* delete_by_tags selecting the points that carry any of the tags.
qdrant_delete_by_any_tag(coll, tags) ==
  IF tags = <<>> THEN Outcome(coll, "Ok", 0)
  ELSE IF coll = NoCollection THEN Outcome(coll, "DeleteError", 1)
  ELSE Outcome(QdrantDelete(coll,
                 FilterShould([k \in DOMAIN tags |->
                                 Matches("tags", to_payload_string(tags[k]))])),
               "Ok", 1)

\* QdrantBackend::delete_by_tags
qdrant_delete_by_tags(coll, tags) ==
  IF tags = <<>> THEN Outcome(coll, "Ok", 0)
  ELSE IF coll = NoCollection THEN Outcome(coll, "DeleteError", 1)
  ELSE Outcome(QdrantDelete(coll,
                 FilterMust([k \in DOMAIN tags |->
                               Matches("tags", to_payload_string(tags[k]))])),
               "Ok", 1)

\* PgVectorBackend::delete_by_tags
pg_delete_by_tags(table, tags) ==
  IF tags = <<>> THEN Outcome(table, "Ok", 0)
  ELSE IF table = NoCollection THEN Outcome(table, "DeleteError", 1)
  ELSE Outcome(SqlDelete(table,
                 SqlAnd([k \in DOMAIN tags |->
                           SqlAnyOf("tags", to_payload_string(tags[k]))])),
               "Ok", 1)

\* QdrantBackend::delete_by_document_ids
qdrant_delete_by_document_ids(coll, document_ids) ==
  IF document_ids = <<>> THEN Outcome(coll, "Ok", 0)
  ELSE IF coll = NoCollection THEN Outcome(coll, "DeleteError", 1)
  ELSE Outcome(QdrantDelete(coll,
                 FilterShould([k \in DOMAIN document_ids |->
                                 Matches("document_id", document_ids[k])])),
               "Ok", 1)

\* PgVectorBackend::delete_by_document_ids
pg_delete_by_document_ids(table, document_ids) ==
  IF document_ids = <<>> THEN Outcome(table, "Ok", 0)
  ELSE IF table = NoCollection THEN Outcome(table, "DeleteError", 1)
  ELSE Outcome(SqlDelete(table, SqlIn("document_id", document_ids)), "Ok", 1)

\* QdrantBackend::clear_collection
qdrant_clear_collection(coll) ==
  IF coll = NoCollection THEN Outcome(coll, "Ok", 1)
  ELSE Outcome(Empty, "Ok", 4)

\* PgVectorBackend::clear_collection
pg_clear_collection(table) ==
  IF table = NoCollection THEN Outcome(table, "Ok", 1)
  ELSE Outcome(Empty, "Ok", 3)

\* QdrantBackend::delete_by_source_type
qdrant_delete_by_source_type(coll, source_type) ==
  IF coll = NoCollection THEN Outcome(coll, "DeleteError", 1)
  ELSE Outcome(QdrantDelete(coll,
                 FilterShould(<<Matches("source_type", to_string(source_type)),
                                Matches("tags",
                                        <<"source", to_string(source_type)>>)>>)),
               "Ok", 1)

\* PgVectorBackend::delete_by_source_type
pg_delete_by_source_type(table, source_type) ==
  IF table = NoCollection THEN Outcome(table, "DeleteError", 1)
  ELSE Outcome(SqlDelete(table,
                 SqlOr(<<SqlEquals("source_type", to_string(source_type)),
                         SqlAnyOf("tags",
                                  <<"source", to_string(source_type)>>)>>)),
               "Ok", 1)

\* The tag strings that occur in a store.
TagStrings(store) ==
  UNION {{store[i].tags[k] : k \in DOMAIN store[i].tags} :
         i \in Stored(store)}

\* QdrantBackend::list_all_tags: scroll over the points and count
qdrant_list_all_tags(coll) ==
  IF coll = NoCollection THEN Failed("SearchError")
  ELSE LET payloads == [i \in Ids |->
                          IF i \in Stored(coll) THEN coll[i].payload
                          ELSE NoPoint]
           names == TagStrings(payloads)
           tag_counts ==
             [name \in names |->
                Cardinality(UNION {{<<i, k>> : k \in
                                      {n \in DOMAIN payloads[i].tags :
                                         payloads[i].tags[n] = name}} :
                                   i \in Stored(coll)})]
       IN Listed(SortTagCounts(names, tag_counts))

\* PgVectorBackend::list_all_tags: unnest(tags), GROUP BY tag
pg_list_all_tags(table) ==
  IF table = NoCollection THEN Failed("SearchError")
  ELSE LET unnested == UNION {{<<i, k, table[i].tags[k]>> :
                                 k \in DOMAIN table[i].tags} :
                              i \in Stored(table)}
           names == {r[3] : r \in unnested}
           count == [name \in names |->
                       Cardinality({r \in unnested : r[3] = name})]
       IN Listed(SortTagCounts(names, count))

\* ---- the calls
TagLists == {<<>>, <<TagA>>, <<TagA, TagB>>}
SourceLists == {<<>>, <<"Local">>, <<"Local", "Jira">>}
MinScores == {<<>>, <<1>>, <<2>>}
QueryVectors == {1}
DocumentIdLists == UNION { [1..n -> Ids] : n \in 0..MaxBatch }
SearchArgs ==
  [query_vector : QueryVectors, limit : 1..MaxLimit, tags : TagLists,
   source_types : SourceLists, min_score : MinScores]

\* One call on each backend: the stores afterwards and what was returned.
\* seen is what Qdrant's reads see after the call.
Called(op, args, q, seen, p) ==
  /\ qdrant' = q.store
  /\ qseen' = seen
  /\ pg' = p.store
  /\ cmd' = [op |-> op, args |-> args,
             q |-> [res |-> q.res, calls |-> q.calls],
             p |-> [res |-> p.res, calls |-> p.calls]]
  /\ UNCHANGED <<kvars, rvars, wvars, ivars, fvars, dvars, nvars, cvars>>

\* Creating and deleting a collection is done when the call returns.
CreateCollection ==
  /\ Called("create_collection", <<>>,
            qdrant_create_collection(qdrant),
            IF qdrant = NoCollection THEN Empty ELSE qseen,
            pg_create_collection(pg))
  /\ qdim' = created_dim(qdim, embedding_dim)
  /\ pdim' = created_dim(pdim, embedding_dim)
  /\ UNCHANGED embedding_dim

\* upsert_points and the deletes build their request without wait(true):
\* Qdrant acknowledges the update and applies it later (QdrantApply), while
\* the SQL statement of pgvector is done when the call returns.
UpsertPoints(batch) ==
  /\ Called("upsert_points", batch,
            IF Rejects(qdim, embedding_dim, batch)
            THEN Outcome(qdrant, "UpsertError", 1)
            ELSE qdrant_upsert_points(qdrant, batch),
            qseen,
            IF Rejects(pdim, embedding_dim, batch)
            THEN Outcome(pg, "UpsertError", 2)
            ELSE pg_upsert_points(pg, batch))
  /\ UNCHANGED gvars

DeleteByTags(tags) ==
  /\ Called("delete_by_tags", tags,
            qdrant_delete_by_tags(qdrant, tags), qseen,
            pg_delete_by_tags(pg, tags))
  /\ UNCHANGED gvars

DeleteByDocumentIds(document_ids) ==
  /\ Called("delete_by_document_ids", document_ids,
            qdrant_delete_by_document_ids(qdrant, document_ids), qseen,
            pg_delete_by_document_ids(pg, document_ids))
  /\ UNCHANGED gvars

ClearCollection ==
  /\ Called("clear_collection", <<>>,
            qdrant_clear_collection(qdrant),
            IF qdrant = NoCollection THEN qseen ELSE Empty,
            pg_clear_collection(pg))
  /\ qdim' = qdrant_cleared_dim(qdim, embedding_dim)
  /\ pdim' = pg_cleared_dim(pdim, embedding_dim)
  /\ UNCHANGED embedding_dim

DeleteBySourceType(source_type) ==
  /\ Called("delete_by_source_type", source_type,
            qdrant_delete_by_source_type(qdrant, source_type), qseen,
            pg_delete_by_source_type(pg, source_type))
  /\ UNCHANGED gvars

\* search on each backend and through VectorStoreClient, which talks to
\* Qdrant
Search(a) ==
  /\ Called("search", a,
            Outcome(qdrant,
                    [backend |-> qdrant_search(qseen, a.query_vector, a.limit,
                                   a.tags, a.source_types, a.min_score),
                     client |-> client_search(qseen, a.query_vector, a.limit,
                                  a.tags, a.source_types, a.min_score)], 1),
            qseen,
            Outcome(pg,
                    [backend |-> pg_search(pg, a.query_vector, a.limit, a.tags,
                                   a.source_types, a.min_score)], 1))
  /\ UNCHANGED gvars

ListAllTags ==
  /\ Called("list_all_tags", <<>>,
            Outcome(qdrant, qdrant_list_all_tags(qseen), 1), qseen,
            Outcome(pg, pg_list_all_tags(pg), 1))
  /\ UNCHANGED gvars

\* Qdrant applies the updates it has acknowledged; what the last call
\* returned is no longer the latest view.
QdrantApply ==
  /\ qseen # qdrant
  /\ qseen' = qdrant
  /\ cmd' = [op |-> "none"]
  /\ UNCHANGED <<qdrant, pg, gvars, kvars, rvars, wvars, ivars, fvars, dvars,
                 nvars, cvars>>

StoreNext ==
  \/ CreateCollection
  \/ \E batch \in Batches : UpsertPoints(batch)
  \/ \E tags \in TagLists : DeleteByTags(tags)
  \/ \E document_ids \in DocumentIdLists : DeleteByDocumentIds(document_ids)
  \/ ClearCollection
  \/ \E source_type \in {"Local", "Jira", "Confluence"} :
       DeleteBySourceType(source_type)
  \/ \E a \in SearchArgs : Search(a)
  \/ ListAllTags
  \/ QdrantApply

StoreInit == SystemInit({0}) /\ ToolsIdle

StoreSpec == StoreInit /\ [][StoreNext]_vars

\* create_backend_with_dimension: a later run of the program builds its
\* backend with another embedding dimension; the stores stay as they are.
NewBackend(dim) ==
  /\ dim # embedding_dim
  /\ embedding_dim' = dim
  /\ cmd' = [op |-> "none"]
  /\ UNCHANGED <<qdrant, qseen, pg, qdim, pdim, kvars, rvars, wvars, ivars,
                 fvars, dvars, nvars, cvars>>

\* Provisioning: collections created, filled and cleared by backends of
\* several dimensions.
ProvisionNext ==
  \/ CreateCollection
  \/ ClearCollection
  \/ \E batch \in Batches : UpsertPoints(batch)
  \/ \E dim \in Dims : NewBackend(dim)
  \/ QdrantApply

ProvisionSpec == StoreInit /\ [][ProvisionNext]_vars

\* ------------------------------------------------------------- retry
\* utils/retry.rs: with_retry. Durations are in milliseconds. The jitter
\* added to a sleep only lengthens it and is left out.
MaxRetries == 3

\* RetryConfig::new(max_retries), with_max_delay
RetryConfigs ==
  [max_retries : 0..MaxRetries, initial_delay : {100},
   max_delay : {150, 10000}, multiplier : {2}]

\* What one invocation of the operation returns: Ok or an error.
Returns == {"Ok", "Timeout", "ProtocolError"}

\* Retryable for DaemonError
is_retryable(error) == error \in {"ConnectionFailed", "Timeout", "NotRunning"}

\* with_retry's test after an Err with one more attempt allowed.
GivesUpLate(n, cfg, error) == n > cfg.max_retries \/ ~is_retryable(error)

\* with_retry's test after an Err: the attempts are used up or the error
\* is not retryable.
GivesUp(n, cfg, error) == n >= cfg.max_retries \/ ~is_retryable(error)

\* RetryResult::Success and RetryResult::Failed; a value and an error
\* are told apart by the invocation that returned them.
Success(value) == [kind |-> "Success", value |-> value]
RetryFailed(last_error, n) ==
  [kind |-> "Failed", last_error |-> last_error, attempts |-> n]

\* with_retry is called.
WithRetry ==
  /\ rpc = "idle"
  /\ rpc' = "call"
  /\ attempts' = 0
  /\ delay' = retry_config.initial_delay
  /\ UNCHANGED <<retry_config, results, invoked, retried>>
  /\ UNCHANGED <<kvars, svars, gvars, wvars, ivars, fvars, dvars, nvars,
                 cvars>>

\* One turn of the loop: attempts += 1, operation().await and the match
\* on its result.
Attempt ==
  /\ rpc = "call"
  /\ invoked < Len(results)
  /\ attempts' = attempts + 1
  /\ invoked' = invoked + 1
  /\ LET result == results[invoked + 1]
     IN IF result = "Ok"
        THEN /\ retried' = Success(invoked + 1)
             /\ rpc' = "done"
        ELSE IF GivesUp(attempts + 1, retry_config, result)
        THEN /\ retried' = RetryFailed(<<result, invoked + 1>>, attempts + 1)
             /\ rpc' = "done"
        ELSE /\ rpc' = "sleep"
             /\ UNCHANGED retried
  /\ UNCHANGED <<retry_config, results, delay>>
  /\ UNCHANGED <<kvars, svars, gvars, wvars, ivars, fvars, dvars, nvars,
                 cvars>>

\* sleep(actual_delay).await is over; the delay grows for the next turn.
Backoff ==
  /\ rpc = "sleep"
  /\ delay' = Min(delay * retry_config.multiplier, retry_config.max_delay)
  /\ rpc' = "call"
  /\ UNCHANGED <<retry_config, results, attempts, invoked, retried>>
  /\ UNCHANGED <<kvars, svars, gvars, wvars, ivars, fvars, dvars, nvars,
                 cvars>>

RetryNext == WithRetry \/ Attempt \/ Backoff

RetryInit ==
  /\ SystemInit({0})
  /\ ChunkerIdle
  /\ StoreIdle
  /\ SplitIdle
  /\ IndexIdle
  /\ retry_config \in RetryConfigs
  /\ results \in [1..(MaxRetries + 1) -> Returns]
  /\ rpc = "idle"
  /\ attempts = 0
  /\ delay = 0
  /\ invoked = 0
  /\ retried = [kind |-> "none"]

RetrySpec == RetryInit /\ [][RetryNext]_vars

\* ---------------------------------------------------- indexing pipeline
\* cli/commands/index.rs handle_add and services/batch.rs process_batch:
\* the files of a directory are chunked, embedded and stored, run after
\* run. A chunk keeps its id, its document, its index, its content and its
\* vector; the store keeps one chunk per id (upsert_points, C19).
MaxRuns == 2
MaxBatchSize == 2

\* The paths collect_files may find, in its order.
Locations == <<"a.txt", "b.txt">>

\* What a file may hold: nothing, one chunk, two chunks.
Versions == {<<>>, Run("a", 55), Run("a", 60) \o Run("a", 50)}

\* The file lists of a run: each path absent or present with a content.
RECURSIVE FileListsFrom(_)
FileListsFrom(k) ==
  IF k > Len(Locations) THEN {<<>>}
  ELSE LET rest == FileListsFrom(k + 1)
       IN rest \cup
          {<<[location |-> Locations[k], content |-> v]>> \o r :
             v \in Versions, r \in rest}

\* config.indexing of the runs
IndexingConfig == [chunk_size |-> 15, chunk_overlap |-> 0]

\* Document::generate_id: a hash of "source_type:location"
generate_document_id(location) == <<"local", location>>

\* DocumentChunk::generate_id: a UUID made of "document_id:chunk_index"
generate_chunk_id(document_id, chunk_index) == <<document_id, chunk_index>>

\* DocumentChunk::from_document for a chunk of chunk()
from_document(location, c) ==
  [id |-> generate_chunk_id(generate_document_id(location), c.chunk_index),
   document_id |-> generate_document_id(location),
   chunk_index |-> c.chunk_index,
   content |-> c.content,
   dense_vector |-> <<>>]

\* chunker.chunk(&document) in handle_add
ChunksOf(file) ==
  LET cs == chunk(TextChunker(IndexingConfig), file.content)
  IN [i \in 1..Len(cs) |-> from_document(file.location, cs[i])]

\* The embedding of a text: a vector that tells the texts apart.
Embedding(text) == <<Len(text), 1>>

\* embed_batch: one embedding per text, in order
embed_batch(texts) == [i \in 1..Len(texts) |-> Embedding(texts[i])]

\* process_batch leaving the vectors as they are.
ZipNothing(chunks_, embeddings) == chunks_

\* process_batch: for (chunk, embedding) in chunks.iter_mut().zip(embeddings)
Zip(chunks_, embeddings) ==
  [i \in 1..Len(chunks_) |->
     IF i <= Len(embeddings)
     THEN [chunks_[i] EXCEPT !.dense_vector = embeddings[i]]
     ELSE chunks_[i]]

\* upsert_points on the store: each chunk replaces the stored chunk of its
\* id.
RECURSIVE Upsert(_, _)
Upsert(store, batch) ==
  IF batch = <<>> THEN store
  ELSE Upsert({c \in store : c.id # Head(batch).id} \cup {Head(batch)},
              Tail(batch))

\* process_batch with what the embedding service and the store do
\* (outcome): the buffers and the store afterwards, the batch handed to
\* upsert_points, and the result.
process_batch(chunks_, texts, store, outcome) ==
  IF texts = <<>>
  THEN [chunks |-> chunks_, texts |-> texts, store |-> store,
        handed |-> <<>>, res |-> "Ok"]
  ELSE IF outcome = "embed_error"
  THEN [chunks |-> chunks_, texts |-> <<>>, store |-> store,
        handed |-> <<>>, res |-> "failed to generate embeddings"]
  ELSE LET batch == Zip(chunks_, embed_batch(texts))
       IN IF outcome = "store_error"
          THEN [chunks |-> <<>>, texts |-> <<>>, store |-> store,
                handed |-> <<batch>>, res |-> "failed to store chunks"]
          ELSE [chunks |-> <<>>, texts |-> <<>>, store |-> Upsert(store, batch),
                handed |-> <<batch>>, res |-> "Ok"]

\* What may happen in a process_batch.
Outcomes == {"ok", "embed_error", "store_error"}

\* handle_add up to its loop: the files are collected; without files it
\* returns at once.
HandleAdd(fs, bs) ==
  /\ ipc \in {"idle", "done", "failed"}
  /\ runs < MaxRuns
  /\ runs' = runs + 1
  /\ files' = fs
  /\ batch_size' = bs
  /\ ipos' = 1
  /\ pending_chunks' = <<>>
  /\ pending_texts' = <<>>
  /\ handed' = <<>>
  /\ produced' = <<>>
  /\ batched' = "none"
  /\ ipc' = IF fs = <<>> THEN "done" ELSE "files"
  /\ UNCHANGED indexed
  /\ UNCHANGED <<kvars, svars, gvars, rvars, wvars, fvars, dvars, nvars,
                 cvars>>

\* One turn of `for file_path in &files`: an empty file is skipped; the
\* chunks of the file are pushed, and process_batch is called when
\* batch_size texts are pending. An error ends handle_add.
IndexFile ==
  /\ ipc = "files"
  /\ ipos <= Len(files)
  /\ ipos' = ipos + 1
  /\ LET file == files[ipos]
         cs == IF file.content = <<>> THEN <<>> ELSE ChunksOf(file)
         chunks_ == pending_chunks \o cs
         texts == pending_texts \o [i \in 1..Len(cs) |-> cs[i].content]
     IN /\ produced' = produced \o cs
        /\ IF file.content # <<>> /\ Len(texts) >= batch_size
           THEN \E outcome \in Outcomes :
                  LET r == process_batch(chunks_, texts, indexed, outcome)
                  IN /\ pending_chunks' = r.chunks
                     /\ pending_texts' = r.texts
                     /\ indexed' = r.store
                     /\ handed' = handed \o r.handed
                     /\ batched' = r.res
                     /\ ipc' = IF r.res = "Ok" THEN "files" ELSE "failed"
           ELSE /\ pending_chunks' = chunks_
                /\ pending_texts' = texts
                /\ batched' = "none"
                /\ UNCHANGED <<indexed, handed, ipc>>
  /\ UNCHANGED <<files, batch_size, runs>>
  /\ UNCHANGED <<kvars, svars, gvars, rvars, wvars, fvars, dvars, nvars,
                 cvars>>

\* After the loop: the pending chunks are processed and handle_add
\* returns.
IndexRest ==
  /\ ipc = "files"
  /\ ipos > Len(files)
  /\ IF pending_texts # <<>>
     THEN \E outcome \in Outcomes :
            LET r == process_batch(pending_chunks, pending_texts, indexed,
                                   outcome)
            IN /\ pending_chunks' = r.chunks
               /\ pending_texts' = r.texts
               /\ indexed' = r.store
               /\ handed' = handed \o r.handed
               /\ batched' = r.res
               /\ ipc' = IF r.res = "Ok" THEN "done" ELSE "failed"
     ELSE /\ ipc' = "done"
          /\ batched' = "none"
          /\ UNCHANGED <<pending_chunks, pending_texts, indexed, handed>>
  /\ UNCHANGED <<files, batch_size, ipos, produced, runs>>
  /\ UNCHANGED <<kvars, svars, gvars, rvars, wvars, fvars, dvars, nvars,
                 cvars>>

IndexNext ==
  \/ \E fs \in FileListsFrom(1), bs \in 1..MaxBatchSize : HandleAdd(fs, bs)
  \/ IndexFile
  \/ IndexRest

IndexInit == SystemInit({0}) /\ ToolsIdle

IndexSpec == IndexInit /\ [][IndexNext]_vars

\* ---------------------------------------------------------- properties
\* The responses handle_request can return for a request.
Answers(rq) ==
  CASE rq = "ping" -> {"pong"}
    [] rq = "shutdown" -> {"shutdown_ack"}
    [] rq = "status" -> {"status"}
    [] rq = "embed" -> {"embed", "error"}
    [] rq = "invalid" -> {"error"}
    [] OTHER -> {}

\* The stream daemon d is serving is k, and d holds a request it has read
\* from k and not yet answered.
InFlight(d, k) == cur[d] = k /\ dpc[d] \in ServePcs \ {"read"}

\* C1: on a connection whose peer is still there, the i-th response written
\* answers the i-th request read, every request read has its one response
\* except the one in hand, and no response is written without a request.
C1_OneResponseInOrder ==
  \A k \in Conns :
    LET c == conn[k] IN
      /\ Len(c.out) <= Len(c.rd)
      /\ \A i \in 1..Len(c.out) : c.out[i].body \in Answers(c.rd[i])
      /\ c.peerOpen /\ c.st \in {"accepted", "closed"} =>
           Len(c.rd) - Len(c.out) =
             (IF \E d \in Daemons : InFlight(d, k) THEN 1 ELSE 0)

\* Two different requests read from one connection, both answered.
C1_Witness ==
  \E k \in Conns :
    /\ conn[k].peerOpen
    /\ Len(conn[k].rd) = 2 /\ Len(conn[k].out) = 2
    /\ conn[k].rd[1] # conn[k].rd[2]
    /\ conn[k].out[1] # conn[k].out[2]

\* C2: no decoder, the daemon's or the client's, reads the body of a frame
\* whose declared length is above the cap.
C2_NoBodyAboveCap == bigBody = {}

Last(q) == q[Len(q)]

\* C3: while the peer is there, a request that does not deserialize and a
\* request whose dispatch fails are each answered with an Error response,
\* and the daemon goes on reading requests from the same connection.
C3_ErrorKeepsSession ==
  [][\A d \in Daemons :
       LET k == cur[d] IN
         /\ ( /\ dpc[d] = "read"
              /\ conn[k].peerOpen
              /\ Len(conn'[k].rd) = Len(conn[k].rd) + 1
              /\ Last(conn'[k].rd) = "invalid" )
            => /\ conn'[k].out = Append(conn[k].out, Response("error", ShortLen))
               /\ conn'[k].st = "accepted"
               /\ cur'[d] = k /\ dpc'[d] = "read"
         /\ ( /\ dpc[d] = "write"
              /\ resp[d].body = "error"
              /\ conn[k].peerOpen
              /\ dpc'[d] # "write" )
            => /\ conn'[k].out = Append(conn[k].out, resp[d])
               /\ conn'[k].st = "accepted"
               /\ cur'[d] = k /\ dpc'[d] = "read"
    ]_vars

\* A request that did not deserialize and then an Embed that failed, both
\* answered with Error on one connection, which is still being read.
C3_Witness ==
  \E d \in Daemons :
    /\ dpc[d] = "read"
    /\ cur[d] # 0
    /\ conn[cur[d]].st = "accepted"
    /\ conn[cur[d]].rd = <<"invalid", "embed">>
    /\ conn[cur[d]].out = <<Response("error", ShortLen),
                            Response("error", ShortLen)>>

\* C4 as stated: every request answered, an Error response included, was
\* counted: the counter is at least the number of responses written on the
\* connection being served.
C4_EveryAnswerCounted ==
  \A d \in Daemons :
    cur[d] # 0 => served[d] >= Min(Len(conn[cur[d]].out), MaxServed)

\* C4 amended: requests_served never decreases; it is incremented, by one,
\* exactly once after each call of handle_request (whether the response is
\* an Error or not) and at no other step: a request that does not
\* deserialize is answered without being counted.
C4_CountsDispatched ==
  /\ [](\A d \in Daemons :
          handled[d] = IF dpc[d] \in {"embed", "lock", "infer", "count"}
                       THEN Count(served[d]) ELSE served[d])
  /\ [][\A d \in Daemons :
          /\ served'[d] >= served[d]
          /\ served'[d] # served[d] =>
               /\ served'[d] = served[d] + 1
               /\ dpc[d] = "count" /\ dpc'[d] = "write"
          /\ dpc[d] = "count" /\ dpc'[d] = "write" =>
               served'[d] = Min(served[d] + 1, MaxServed)
       ]_vars

\* An Embed answered with Error was counted; the request before it, which
\* did not deserialize and was answered with Error too, was not.
C4_Witness ==
  \E d \in Daemons :
    /\ dpc[d] = "read"
    /\ cur[d] # 0
    /\ conn[cur[d]].rd = <<"invalid", "embed">>
    /\ Len(conn[cur[d]].out) = 2
    /\ conn[cur[d]].out[2].body = "error"
    /\ served[d] = 1

C6_ShutdownStops ==
  \A d \in Daemons :
    (shutdown[d] /\ dpc[d] = "select") ~> (dpc[d] = "stopped")

\* C7: a daemon that has stopped after binding its socket has left neither
\* the socket file nor the PID file it created.
C7_FilesRemovedOnStop ==
  \A d \in Daemons :
    dpc[d] = "stopped" /\ bound[d] => sockFile # d /\ pidFile # d

\* The daemons inside the accept loop of run().
Serving == {d \in Daemons : dpc[d] \in LoopPcs}

\* C8: at most one daemon process is in its accept loop for the socket path.
C8_OneDaemonPerPath == Cardinality(Serving) <= 1

Returned == {"ok", "not_running", "timeout", "spawn_error"}

C11_StopAlwaysRemoves ==
  \A c \in Clients :
    cpc[c] = "done" /\ cpid[c] # 0 =>
      pidFile # cpid[c] /\ sockFile # cpid[c]

\* C11 amended: with no PID file stop_daemon returns NotRunning and changes
\* neither file nor process; with one it signals the recorded process, and
\* if the signal is delivered that process ends and stop_daemon removes the
\* PID file, then the socket file, and returns Ok; if the signal cannot be
\* sent it returns the error and leaves both files.
C11_StopDaemon ==
  /\ [](\A c \in Clients :
          cres[c] = "stopped" =>
            /\ cpid[c] \in Daemons /\ dpc[cpid[c]] = "stopped"
            /\ pidFile # cpid[c] /\ sockFile # cpid[c])
  /\ [][\A c \in Clients :
          /\ cpc[c] = "sd_read" /\ cpc'[c] # "sd_read" =>
               /\ UNCHANGED <<fvars, dpc>>
               /\ IF pidFile = 0
                  THEN cres'[c] = "not_running" /\ cpc'[c] = "done"
                  ELSE cpid'[c] = pidFile /\ cpc'[c] = "sd_kill"
          /\ cpc[c] = "sd_kill" /\ cpc'[c] # "sd_kill" =>
               /\ UNCHANGED fvars
               /\ IF Alive(cpid[c])
                  THEN /\ dpc'[cpid[c]] = "stopped"
                       /\ exitBy'[cpid[c]] = "sigterm"
                       /\ cpc'[c] = "sd_rm_pid"
                  ELSE /\ cres'[c] = "error" /\ cpc'[c] = "done"
                       /\ UNCHANGED dpc
          /\ cpc[c] = "sd_rm_pid" /\ cpc'[c] # "sd_rm_pid" =>
               pidFile' = 0 /\ cpc'[c] = "sd_rm_sock"
          /\ cpc[c] = "sd_rm_sock" /\ cpc'[c] # "sd_rm_sock" =>
               sockFile' = 0 /\ cres'[c] = "stopped"
       ]_vars

\* stop_daemon signalled a daemon that was in its accept loop and returned
\* Ok with both files gone.
C11_Witness ==
  \E c \in Clients :
    /\ cpc[c] = "done" /\ cres[c] = "stopped"
    /\ exitBy[cpid[c]] = "sigterm" /\ bound[cpid[c]]
    /\ pidFile = 0 /\ sockFile = 0


\* C12: an empty document yields no chunks, and a non-empty document whose
\* length in characters is at most chunk_size yields exactly one chunk, with
\* chunk_index 0, total_chunks 1, start offset 0, end offset the length of
\* the content, and the whole document as content.
C12_SmallDocOneChunk ==
  chunked =>
    /\ content = <<>> => chunks = <<>>
    /\ (content # <<>> /\ Len(content) <= TextChunker(config).chunk_size) =>
         chunks = <<[content |-> content, chunk_index |-> 0,
                     total_chunks |-> 1, start_offset |-> 0,
                     end_offset |-> Len(content)]>>


\* C13: for a non-empty document the ranges [start, end) of the chunks, in
\* chunk_index order, cover every character of the content without a gap,
\* and two consecutive chunks share at most the configured overlap.
C13_ChunkCoverage ==
  (chunked /\ content # <<>>) =>
    /\ chunks # <<>>
    /\ chunks[1].start_offset = 0
    /\ chunks[Len(chunks)].end_offset = Len(content)
    /\ \A i \in 1..(Len(chunks) - 1) :
         /\ chunks[i].chunk_index + 1 = chunks[i + 1].chunk_index
         /\ chunks[i + 1].start_offset <= chunks[i].end_offset
         /\ chunks[i].end_offset - chunks[i + 1].start_offset
              <= TextChunker(config).overlap


\* C14 as stated: chunk() never emits a chunk with fewer than 50
\* non-whitespace characters, for any document and configuration.
C14_NeverBelowThreshold ==
  chunked =>
    \A i \in 1..Len(chunks) :
      Cardinality({k \in 1..Len(chunks[i].content) :
                     ~is_whitespace(chunks[i].content[k])})
        >= MIN_CONTENT_LENGTH

\* C14: for a document longer (in bytes) than chunk_size, chunk() never
\* emits a chunk with fewer than 50 non-whitespace characters; a document
\* of at most chunk_size bytes is emitted as one chunk whatever it holds.
C14_FilterOnSplitPath ==
  chunked =>
    IF ByteLen(content) > TextChunker(config).chunk_size
    THEN \A i \in 1..Len(chunks) :
           Cardinality({k \in 1..Len(chunks[i].content) :
                          ~is_whitespace(chunks[i].content[k])})
             >= MIN_CONTENT_LENGTH
    ELSE content # <<>> => Len(chunks) = 1 /\ chunks[1].content = content

\* C14 witness: a long document of which one window was dropped and another
\* kept.
C14_Witness ==
  /\ chunked
  /\ ByteLen(content) > TextChunker(config).chunk_size
  /\ Len(chunks) >= 1
  /\ Len(chunks) < Len(split_with_overlap(TextChunker(config), content))


\* C15: in every result of chunk() the chunk_index values are 0, 1, ...,
\* n - 1 in output order and every total_chunks is n, the number of chunks
\* emitted.
C15_ContiguousIndices ==
  chunked =>
    \A i \in 1..Len(chunks) :
      /\ chunks[i].chunk_index = i - 1
      /\ chunks[i].total_chunks = Len(chunks)

\* C15 witness: at least two chunks were emitted and at least one window
\* was dropped.
C15_Witness ==
  /\ chunked
  /\ Len(chunks) >= 2
  /\ Len(chunks) + 1 <= Len(split_with_overlap(TextChunker(config), content))


\* C16: a document longer than the chunk size (such as the 43 characters of
\* Hello with chunk_size 5 tokens and overlap 1 token) yields at least two
\* chunks, chunk_index increases from 0, and the end offset of the last
\* chunk is the length of the content.
C16_LongDocSeveralChunks ==
  (chunked /\ Len(content) > TextChunker(config).chunk_size) =>
    /\ Len(chunks) >= 2
    /\ \A i \in 1..Len(chunks) : chunks[i].chunk_index = i - 1
    /\ chunks[Len(chunks)].end_offset = Len(content)


\* Whether a search result meets the arguments of a search: it carries
\* every given tag, its source type is one of the given ones if any is
\* given, and its score is at least min_score if one is given.
Satisfies(r, a) ==
  /\ \A k \in DOMAIN a.tags : \E m \in DOMAIN r.tags : r.tags[m] = a.tags[k]
  /\ a.source_types # <<>> =>
       \E k \in DOMAIN a.source_types : r.source_type = a.source_types[k]
  /\ a.min_score # <<>> => r.score >= a.min_score[1]

\* The chunk ids of a list of search results.
ChunkIds(list) == {list[k].chunk_id : k \in DOMAIN list}

\* What a search owes its caller: at most limit results, each of which
\* satisfies the arguments; all the stored points that satisfy them, up to
\* limit (so that tags narrow by AND, source types by OR, and empty lists do
\* not narrow at all); and no result that a lower min_score would not give.
\* eligible is the number of stored points that satisfy the arguments and
\* lower[m] the results of the same search with min_score m.
SearchOwes(list, a, eligible, lower) ==
  /\ Len(list) <= a.limit
  /\ \A k \in DOMAIN list : Satisfies(list[k], a)
  /\ Len(list) = Min(a.limit, eligible)
  /\ \A m \in MinScores :
       (m = <<>> \/ (a.min_score # <<>> /\ m[1] <= a.min_score[1])) =>
         ChunkIds(list) \subseteq ChunkIds(lower[m].list)

\* C17: every search, on either backend or through VectorStoreClient,
\* returns at most limit results, each carrying every given tag (AND), of
\* one of the given source types when any are given (OR) and of similarity
\* at least min_score when given; nothing else narrows the results, and
\* raising min_score yields a subset of the results.
C17_SearchFilters ==
  (cmd.op = "search" /\ qdrant # NoCollection /\ pg # NoCollection) =>
    LET a == cmd.args
        qeligible == Cardinality({i \in Stored(qseen) :
                       Satisfies(QdrantResult(qseen, a.query_vector, i), a)})
        peligible == Cardinality({i \in Stored(pg) :
                       Satisfies(PgResult(pg, a.query_vector, i), a)})
    IN /\ SearchOwes(cmd.q.res.backend.list, a, qeligible,
            [m \in MinScores |->
               qdrant_search(qseen, a.query_vector, a.limit, a.tags,
                             a.source_types, m)])
       /\ SearchOwes(cmd.p.res.backend.list, a, peligible,
            [m \in MinScores |->
               pg_search(pg, a.query_vector, a.limit, a.tags,
                         a.source_types, m)])
       /\ SearchOwes(cmd.q.res.client.list, a, qeligible,
            [m \in MinScores |->
               client_search(qseen, a.query_vector, a.limit, a.tags,
                             a.source_types, m)])


\* C18: the two backends cannot be told apart through the trait. In every
\* state, after the same calls on both, every search returns the same
\* results with the same field values on both, list_all_tags returns the
\* same counts, the same points are stored with the same values, and the
\* call made last returned the same on both.
C18_BackendsEquivalent ==
  /\ (qseen = NoCollection) <=> (pg = NoCollection)
  /\ \A a \in SearchArgs :
       qdrant_search(qseen, a.query_vector, a.limit, a.tags, a.source_types,
                     a.min_score)
         = pg_search(pg, a.query_vector, a.limit, a.tags, a.source_types,
                     a.min_score)
  /\ qdrant_list_all_tags(qseen) = pg_list_all_tags(pg)
  /\ qseen # NoCollection /\ pg # NoCollection =>
       /\ Stored(qseen) = Stored(pg)
       /\ \A i \in Stored(qseen) \cap Stored(pg) :
            /\ QdrantResult(qseen, 1, i) = PgResult(pg, 1, i)
            /\ qseen[i].payload.document_id = pg[i].document_id
  /\ cmd.op = "search" => cmd.q.res.backend = cmd.p.res.backend
  /\ cmd.op \notin {"search", "none"} => cmd.q.res = cmd.p.res


\* The chunk of a batch that is upserted last under id i.
LastOf(batch, i) ==
  batch[CHOOSE k \in DOMAIN batch :
          /\ batch[k].id = i
          /\ \A n \in DOMAIN batch : batch[n].id = i => n <= k]

\* Whether a search result shows the values of a chunk.
Carries(r, dchunk) ==
  /\ r.chunk_id = dchunk.id
  /\ r.content = dchunk.content
  /\ r.source_type = dchunk.source_type
  /\ r.tags = dchunk.tags
  /\ r.score = Similarity(1, dchunk.dense_vector)

\* C19: upsert_points inserts each chunk or replaces the point of the same
\* chunk id: after the call the store (for Qdrant: the collection with the
\* acknowledged updates) holds one point for every id of the batch, with
\* the values upserted last, and the other points as before; upserting the
\* same batch again changes nothing, and an empty batch changes nothing and
\* sends nothing.
C19_UpsertReplaces ==
  /\ [](cmd.op = "upsert_points" =>
          /\ qdrant_upsert_points(qdrant, cmd.args).store = qdrant
          /\ pg_upsert_points(pg, cmd.args).store = pg)
  /\ [][cmd'.op = "upsert_points" =>
          LET batch == cmd'.args
              ids == {batch[k].id : k \in DOMAIN batch}
          IN /\ batch = <<>> =>
                  /\ qdrant' = qdrant /\ pg' = pg
                  /\ cmd'.q = [res |-> "Ok", calls |-> 0]
                  /\ cmd'.p = [res |-> "Ok", calls |-> 0]
             /\ (batch # <<>> /\ qdrant # NoCollection /\ pg # NoCollection) =>
                  /\ cmd'.q.res = "Ok" /\ cmd'.p.res = "Ok"
                  /\ Stored(qdrant') = Stored(qdrant) \cup ids
                  /\ Stored(pg') = Stored(pg) \cup ids
                  /\ \A i \in Ids \ ids :
                       qdrant'[i] = qdrant[i] /\ pg'[i] = pg[i]
                  /\ \A i \in ids :
                       /\ Carries(QdrantResult(qdrant', 1, i), LastOf(batch, i))
                       /\ Carries(PgResult(pg', 1, i), LastOf(batch, i))
                       /\ qdrant'[i].payload.document_id
                            = LastOf(batch, i).document_id
                       /\ pg'[i].document_id = LastOf(batch, i).document_id
     ]_vars

\* C19 witness: a batch that upserts one id twice with different values
\* into a store that exists.
C19_Witness ==
  /\ cmd.op = "upsert_points"
  /\ Len(cmd.args) = 2
  /\ cmd.args[1].id = cmd.args[2].id
  /\ cmd.args[1] # cmd.args[2]
  /\ cmd.p.res = "Ok"
  /\ Stored(pg) = Ids


\* Whether a search result carries every tag of a list.
CarriesAll(r, tags) ==
  \A k \in DOMAIN tags : \E m \in DOMAIN r.tags : r.tags[m] = tags[k]

\* C20: delete_by_tags with an empty list returns success, sends no delete
\* to the backend and leaves every stored point as it was; with a
\* non-empty list it removes the points that carry all the given tags and
\* no other point (for Qdrant: in the collection with the acknowledged
\* updates).
C20_DeleteByTags ==
  [][cmd'.op = "delete_by_tags" =>
       LET tags == cmd'.args
       IN /\ tags = <<>> =>
               /\ qdrant' = qdrant /\ qseen' = qseen /\ pg' = pg
               /\ cmd'.q = [res |-> "Ok", calls |-> 0]
               /\ cmd'.p = [res |-> "Ok", calls |-> 0]
          /\ (tags # <<>> /\ qdrant # NoCollection /\ pg # NoCollection) =>
               /\ cmd'.q.res = "Ok" /\ cmd'.p.res = "Ok"
               /\ Stored(qdrant') =
                    {i \in Stored(qdrant) :
                       ~CarriesAll(QdrantResult(qdrant, 1, i), tags)}
               /\ Stored(pg') =
                    {i \in Stored(pg) : ~CarriesAll(PgResult(pg, 1, i), tags)}
               /\ \A i \in Stored(qdrant') : qdrant'[i] = qdrant[i]
               /\ \A i \in Stored(pg') : pg'[i] = pg[i]
  ]_vars

\* C20 witness: delete_by_tags with two tags has removed a point and left
\* another, which carries one of the two tags.
C20_Witness ==
  /\ cmd.op = "delete_by_tags"
  /\ Len(cmd.args) = 2
  /\ cmd.p.res = "Ok"
  /\ \E i \in Ids : i \notin Stored(pg)
  /\ \E i \in Stored(pg) :
       \E m \in DOMAIN pg[i].tags :
         pg[i].tags[m] = to_payload_string(cmd.args[1])

\* C21: create_collection on a collection that exists returns Ok and
\* changes nothing: the points, what reads see of them and the vector size
\* stay as they were, on both backends and however often it is called.
C21_CreateIdempotent ==
  [][cmd'.op = "create_collection" =>
       /\ cmd'.q.res = "Ok" /\ cmd'.p.res = "Ok"
       /\ qdrant # NoCollection =>
            qdrant' = qdrant /\ qseen' = qseen /\ qdim' = qdim
       /\ pg # NoCollection => pg' = pg /\ pdim' = pdim]_vars

\* create_collection has returned on stores that hold points, built by a
\* backend of another dimension than the one that called.
C21_Witness ==
  /\ cmd.op = "create_collection"
  /\ cmd.q.calls = 1 /\ cmd.p.calls = 2
  /\ Stored(qdrant) # {} /\ Stored(pg) # {}
  /\ qdim # embedding_dim

\* C22: clear_collection on a collection that exists leaves, on both
\* backends, a collection without points whose vector size is the
\* embedding dimension of the backend that cleared it; on a missing
\* collection it creates nothing.
C22_ClearRecreates ==
  [][cmd'.op = "clear_collection" =>
       /\ cmd'.q.res = "Ok" /\ cmd'.p.res = "Ok"
       /\ IF qdrant = NoCollection
          THEN qdrant' = NoCollection /\ qdim' = 0
          ELSE qdrant' # NoCollection /\ Stored(qdrant') = {}
               /\ qdim' = embedding_dim
       /\ IF pg = NoCollection
          THEN pg' = NoCollection /\ pdim' = 0
          ELSE pg' # NoCollection /\ Stored(pg') = {}
               /\ pdim' = embedding_dim]_vars

\* The invocation that ends with_retry: the first that returns Ok or an
\* error that is not retryable, no later than invocation `last`.
EndsAt(last) ==
  LET stops == {k \in 1..last :
                  results[k] = "Ok" \/ ~is_retryable(results[k])}
  IN IF stops = {} THEN last
     ELSE CHOOSE k \in stops : \A j \in stops : k <= j

\* What with_retry owes when invocation n ended it.
RetryOwes(n) ==
  /\ invoked = n
  /\ IF results[n] = "Ok"
     THEN retried = Success(n)
     ELSE retried = RetryFailed(<<results[n], n>>, n)

\* C23 as stated: with_retry stops at the first success, the first error
\* that is not retryable, or when the invocations reach max_retries, and
\* returns that success, or that last error with the invocations made.
C23_StopsAtMaxRetries ==
  rpc = "done" => RetryOwes(EndsAt(retry_config.max_retries))

\* C23 amended: the operation is invoked at least once; with_retry stops at
\* the first success, the first error that is not retryable, or when the
\* invocations reach max(1, max_retries), and returns that success, or
\* that last error with attempts equal to the invocations made.
C23_StopsAtLeastOnce ==
  /\ rpc = "done" => RetryOwes(EndsAt(Max({1, retry_config.max_retries})))
  /\ rpc # "done" => retried = [kind |-> "none"]
  /\ attempts = invoked

\* with_retry has returned Failed after using up its attempts on
\* retryable errors, having slept in between.
C23_Witness ==
  /\ rpc = "done"
  /\ retried.kind = "Failed"
  /\ is_retryable(retried.last_error[1])
  /\ retried.attempts = MaxRetries
  /\ delay = retry_config.max_delay

\* C24: the accept loop, the request loop of a connection and the idle
\* check run side by side. While a connection is being served a pending
\* connection can be accepted; the sleep of the idle check keeps running
\* through the service of a connection; and it is started anew only when it
\* has run out, never because a connection came or went.
C24_Concurrent ==
  [][\A d \in Daemons :
       /\ (dpc[d] \in ServePcs /\ backlog[d] # <<>>) => ENABLED Accept(d)
       /\ (Tick /\ dpc[d] \in ServePcs /\ sleepLeft[d] > 0) =>
            sleepLeft'[d] = sleepLeft[d] - 1
       /\ (dpc[d] \in ServePcs /\ sleepLeft'[d] > sleepLeft[d]) =>
            dpc'[d] \notin LoopPcs]_vars

\* C25: once the Shutdown request has been answered and the daemon is back
\* in run(), the flag stays set and the daemon only goes on to its cleanup:
\* it accepts no further connection.
C25_ShutdownTerminal ==
  [][\A d \in Daemons :
       (shutdown[d] /\ dpc[d] = "select") =>
         shutdown'[d] /\ dpc'[d] \in {"select", "cleanup"}]_vars

\* C26: last_request, set when the daemon is constructed, is written again
\* exactly when a connection is accepted: every accepted connection, a
\* probe that sends nothing and the one that carries Status included, sets
\* the idle time back to zero, nothing else does, Status reports the time
\* since the last accepted connection, and the daemon leaves for idleness
\* only when more than idle_timeout has passed since then.
C26_LastActivity ==
  [][\A d \in Daemons :
       /\ (dpc[d] = "select" /\ dpc'[d] = "read") => idle'[d] = 0
       /\ idle'[d] < idle[d] =>
            \/ dpc[d] = "select" /\ dpc'[d] = "read"
            \/ dpc[d] = "new"
       /\ (dpc[d] = "handle" /\ req[d] = "status" /\ dpc'[d] = "count") =>
            resp'[d].body = "status" /\ resp'[d].idle_secs = idle[d]
       /\ exitBy'[d] = "idle" /\ exitBy[d] # "idle" =>
            idle[d] > idle_timeout]_vars

\* A probe (a connection whose peer has gone without sending anything)
\* has just been accepted after the sleep had run out, and the idle time is
\* back at zero; on an earlier connection Status reported the time since
\* that connection was accepted.
C26_Witness ==
  \E d \in Daemons, k \in Conns :
    /\ dpc[d] = "read" /\ cur[d] # 0 /\ cur[d] # k
    /\ ~conn[cur[d]].peerOpen /\ conn[cur[d]].nsent = 0
    /\ idle[d] = 0 /\ sleepLeft[d] = 0
    /\ conn[k].st = "closed"
    /\ conn[k].out # <<>>
    /\ conn[k].out[1].body = "status" /\ conn[k].out[1].idle_secs = 1

\* C27: chunk() ends whatever the document and the configuration: every
\* turn of the loop of split_with_overlap pushes a window that is not
\* empty, and a turn after which the loop goes on has moved start forward.
C27_LoopAdvances ==
  [][wpushed' # wpushed =>
       /\ wpushed'[Len(wpushed')][2] > wpushed'[Len(wpushed')][1]
       /\ wpc' = "loop" => wstart' > wstart]_vars

\* A chunk of the chunker with the embedding of its own content.
Embedded(c) == [c EXCEPT !.dense_vector = Embedding(c.content)]

\* C28: in a run of handle_add without an embedding or store error, the
\* batches handed to upsert_points are, in order and once each, the chunks
\* the chunker produced, each with the non-empty embedding of its own
\* content; after a successful process_batch both pending buffers are
\* empty; a process_batch whose embedding fails hands nothing to
\* upsert_points and leaves the store as it was.
C28_EachChunkOnce ==
  [][/\ ipc' = "done" =>
          LET flat == Concat(handed')
          IN /\ Len(flat) = Len(produced')
             /\ \A i \in 1..Len(flat) :
                  /\ flat[i] = Embedded(produced'[i])
                  /\ flat[i].dense_vector # <<>>
     /\ batched' = "Ok" => pending_chunks' = <<>> /\ pending_texts' = <<>>
     /\ batched' = "failed to generate embeddings" =>
          handed' = handed /\ indexed' = indexed]_vars

\* A run that ended after two batches: the two chunks of the first file,
\* then the chunk of the second file from the call after the loop.
C28_Witness ==
  /\ ipc = "done"
  /\ batched = "Ok"
  /\ Len(handed) = 2
  /\ Len(handed[1]) = 2
  /\ Len(produced) = 3
  /\ Cardinality(indexed) = 3

\* C29: when a run of handle_add has ended, the store holds, for every
\* file the run indexed, exactly the chunks of that file as it is now.
C29_ReindexReplaces ==
  ipc = "done" =>
    \A k \in 1..Len(files) :
      files[k].content # <<>> =>
        {c \in indexed :
           c.document_id = generate_document_id(files[k].location)}
        = {Embedded(ChunksOf(files[k])[i]) :
             i \in 1..Len(ChunksOf(files[k]))}

\* The daemon whose listener the socket file names, and the daemon that
\* wrote the PID file, while their process lives.
OwnsSocket(d) == sockFile = d /\ dpc[d] \in ListenPcs
OwnsPid(d) == pidFile = d /\ dpc[d] \in LoopPcs \cup {"cleanup", "cleanup_pid"}

\* C30: the socket file of a live daemon is removed only by that daemon's
\* own cleanup, and so is its PID file: no start of another daemon, no
\* cleanup of another daemon and no stop_daemon removes them.
C30_RemovesOnlyOwnFiles ==
  [][\A d \in Daemons :
       /\ (OwnsSocket(d) /\ sockFile' = 0) => dpc[d] = "cleanup"
       /\ (OwnsPid(d) /\ pidFile' = 0) => dpc[d] = "cleanup_pid"]_vars

=============================================================================
